---- MODULE Spec2Model ----
(***************************************************************************)
(* Airbitrage: cross-exchange spot arbitrage scanner (src/main.py).        *)
(*                                                                         *)
(* The model covers the App supervisor (load_markets, discover,            *)
(* start_markets, periodic_universe_refresh), the quote table (on_quote),  *)
(* the hysteresis state (update_hysteresis, is_long), the engine           *)
(* (compute_arbitrages, list_stale) and the connector sessions             *)
(* (src/markets/*.py, _consume).                                           *)
(*                                                                         *)
(* Numbers.  Prices and sizes are Python floats; the model feeds integer   *)
(* valued prices, for which the float quotient (bid - ask) / ask compares  *)
(* against the thresholds exactly as the rational does, and carries        *)
(* profit_frac and profit_pct as rationals [n, d] with d > 0.              *)
(* now_ms() is the variable now (milliseconds); age_sec is carried in      *)
(* milliseconds (age_sec * 1000).                                          *)
(***************************************************************************)
EXTENDS Integers, Sequences, FiniteSets, TLC

VARIABLES
    now,                \* value returned by now_ms()
    ticks,              \* number of clock advances so far
    prices,             \* App.prices: venue -> pair -> Quote
    supported,          \* App.supported: venue -> set of pairs
    arb_states,         \* module global arb_states: key -> ArbState
    market_task,        \* App.market_task: "none", "running", "done", "cancelled"
    sessions,           \* venue -> pairs carried by its running mkt.run(pairs) task
    current_pairs_key,  \* App.current_pairs_key
    started,            \* App.run has reached ui_loop
    rpc,                \* position of the task executing discover/start_markets
    disc,               \* locals of the discover call in progress
    entered,            \* key -> time of its latest false->true transition while it lasts
    conn,               \* locals and position of one connector session (_consume call)
    fcall,              \* one call of a function of the program: arguments and result
    last                \* the last operation executed, with its arguments and result

vars == <<now, ticks, prices, supported, arb_states, market_task, sessions,
          current_pairs_key, started, rpc, disc, entered, conn, fcall, last>>

(***************************************************************************)
(* Bounds of the model                                                     *)
(***************************************************************************)
\* clock advances while the engine scans
MaxTicks == 2

\* clock advances while quotes age
MaxAgingTicks == 4

(***************************************************************************)
(* Python values and dict helpers                                          *)
(***************************************************************************)
\* None in a str-typed or object-typed place
None == "None"

\* None in a float-typed or int-typed place (prices, sizes and times are >= 0)
NoneF == 0 - 1

EmptyDict == [x \in {} |-> None]

DictGet(d, k, default) == IF k \in DOMAIN d THEN d[k] ELSE default

DictPut(d, k, v) == [x \in (DOMAIN d) \cup {k} |-> IF x = k THEN v ELSE d[x]]

RECURSIVE Flatten(_)
Flatten(ss) == IF ss = <<>> THEN <<>> ELSE Head(ss) \o Flatten(Tail(ss))

SeqToSet(s) == {s[i] : i \in 1..Len(s)}

\* lexicographic order of the strings the model uses (str.__lt__)
StrOrder ==
    <<"ADA/USDT", "BTC/USDT", "ETH/USDT", "SOL/USDT", "XRP/USDT", "binance", "kucoin">>

StrIndex(s) == CHOOSE i \in 1..Len(StrOrder) : StrOrder[i] = s

StrLess(a, b) == StrIndex(a) < StrIndex(b)

\* sorted(S) for a set of strings
RECURSIVE SortedStrings(_)
SortedStrings(S) ==
    IF S = {} THEN <<>>
    ELSE LET m == CHOOSE x \in S : \A y \in S : x = y \/ StrLess(x, y)
         IN  <<m>> \o SortedStrings(S \ {m})

\* all orders in which a Python set of strings may be iterated
Orders(S) == {s \in [1..Cardinality(S) -> S] : \A i, j \in 1..Cardinality(S) : i # j => s[i] # s[j]}

(***************************************************************************)
(* Rationals n/d with d > 0                                                *)
(***************************************************************************)
RGe(a, b) == a.n * b.d >= b.n * a.d

RLt(a, b) == a.n * b.d < b.n * a.d

RGt(a, b) == a.n * b.d > b.n * a.d

(***************************************************************************)
(* config.py                                                               *)
(***************************************************************************)
MARKETS_TO_USE == <<"binance", "kucoin">>

Venues == SeqToSet(MARKETS_TO_USE)

Pairs == {"ADA/USDT", "BTC/USDT"}

STALE_SECS == 600

LONG_SECS == 180

MAX_PROFIT_PCT == 10

\* THRESH_ENTER = config.THRESH_ENTER_PCT / 100.0 = 0.4 / 100.0
THRESH_ENTER == [n |-> 4, d |-> 1000]

\* THRESH_EXIT = config.THRESH_EXIT_PCT / 100.0 = 0.3 / 100.0
THRESH_EXIT == [n |-> 3, d |-> 1000]

\* opportunity keys (pair, buy venue, sell venue)
Keys == {k \in Pairs \X Venues \X Venues : k[2] # k[3]}

(***************************************************************************)
(* Data types                                                              *)
(***************************************************************************)
Quote(bid, ask, bid_sz, ask_sz, bid_str, ask_str, ts_ms) ==
    [bid |-> bid, ask |-> ask, bid_sz |-> bid_sz, ask_sz |-> ask_sz,
     bid_str |-> bid_str, ask_str |-> ask_str, ts_ms |-> ts_ms]

\* Quote() with the dataclass defaults
QuoteDefault == Quote(NoneF, NoneF, NoneF, NoneF, None, None, 0)

\* ArbState() with the dataclass defaults
ArbState == [in_window |-> FALSE, since_ms |-> NoneF]

\* math.inf
Inf == [inf |-> TRUE, ms |-> 0]

\* age_sec at the instant now: Inf, or max(0.0, (now_ms() - ts_ms) / 1000.0)
age_sec(ts_ms) == IF ts_ms <= 0 THEN Inf
                  ELSE [inf |-> FALSE, ms |-> IF now - ts_ms > 0 THEN now - ts_ms ELSE 0]

\* a >= secs for an age a
AgeGe(a, secs) == a.inf \/ a.ms >= secs * 1000

\* a pairs_key that keeps the list as it comes: tuple(pairs)
pairs_key_unsorted(pairs) == pairs

pairs_key(pairs) == SortedStrings(SeqToSet(pairs))

(***************************************************************************)
(* The clock: now_ms() is sampled at instants that straddle the LONG       *)
(* boundary (TickSteps), or the LONG and the STALE boundary (AgingSteps),  *)
(* of an event at T0.                                                      *)
(***************************************************************************)
T0 == 1000000

TickSteps == <<LONG_SECS * 1000 - 1, 1>>

AgingSteps == <<LONG_SECS * 1000 - 1, 1, (STALE_SECS - LONG_SECS) * 1000 - 1, 1>>

\* the i-th advance of a clock sampled with the steps of steps, repeated
TickStep(steps, i) == steps[((i - 1) % Len(steps)) + 1]

(***************************************************************************)
(* Hysteresis                                                              *)
(***************************************************************************)
\* mutant of update_hysteresis: a single threshold, leaving below THRESH_ENTER
update_hysteresis_exit_at_enter(states, key, profit_frac, nowms) ==
    LET st == DictGet(states, key, ArbState)
        st2 == IF RGe(profit_frac, THRESH_ENTER)
               THEN IF st.in_window THEN st ELSE [in_window |-> TRUE, since_ms |-> nowms]
               ELSE [in_window |-> FALSE, since_ms |-> NoneF]
    IN  DictPut(states, key, st2)

\* mutant of update_hysteresis: a single threshold, entering from THRESH_EXIT
update_hysteresis_enter_at_exit(states, key, profit_frac, nowms) ==
    LET st == DictGet(states, key, ArbState)
        st2 == IF ~st.in_window
               THEN IF RGe(profit_frac, THRESH_EXIT)
                    THEN [in_window |-> TRUE, since_ms |-> nowms] ELSE st
               ELSE IF RLt(profit_frac, THRESH_EXIT)
                    THEN [in_window |-> FALSE, since_ms |-> NoneF] ELSE st
    IN  DictPut(states, key, st2)

\* mutant of update_hysteresis: since_ms survives an exit
update_hysteresis_keep_since(states, key, profit_frac, nowms) ==
    LET st == DictGet(states, key, ArbState)
        st2 == IF ~st.in_window
               THEN IF RGe(profit_frac, THRESH_ENTER)
                    THEN [in_window |-> TRUE,
                          since_ms |-> IF st.since_ms = NoneF THEN nowms ELSE st.since_ms]
                    ELSE st
               ELSE IF RLt(profit_frac, THRESH_EXIT)
                    THEN [in_window |-> FALSE, since_ms |-> st.since_ms] ELSE st
    IN  DictPut(states, key, st2)

\* mutant of update_hysteresis: since_ms is stamped at every observation out of the window
update_hysteresis_stamp_always(states, key, profit_frac, nowms) ==
    LET st == DictGet(states, key, ArbState)
        st2 == IF ~st.in_window
               THEN [in_window |-> RGe(profit_frac, THRESH_ENTER), since_ms |-> nowms]
               ELSE IF RLt(profit_frac, THRESH_EXIT)
                    THEN [in_window |-> FALSE, since_ms |-> NoneF] ELSE st
    IN  DictPut(states, key, st2)

\* mutant of update_hysteresis: an in-window key observed again gets a new since_ms
update_hysteresis_restamp(states, key, profit_frac, nowms) ==
    LET st == DictGet(states, key, ArbState)
        st2 == IF ~st.in_window
               THEN IF RGe(profit_frac, THRESH_ENTER)
                    THEN [in_window |-> TRUE, since_ms |-> nowms] ELSE st
               ELSE IF RLt(profit_frac, THRESH_EXIT)
                    THEN [in_window |-> FALSE, since_ms |-> NoneF]
                    ELSE [in_window |-> TRUE, since_ms |-> nowms]
    IN  DictPut(states, key, st2)

\* update_hysteresis: the arb_states dict after the call; the value returned
\* by the call is in_window of the entry of key
update_hysteresis(states, key, profit_frac, nowms) ==
    LET st == DictGet(states, key, ArbState)
        st2 == IF ~st.in_window
               THEN IF RGe(profit_frac, THRESH_ENTER)
                    THEN [in_window |-> TRUE, since_ms |-> nowms] ELSE st
               ELSE IF RLt(profit_frac, THRESH_EXIT)
                    THEN [in_window |-> FALSE, since_ms |-> NoneF] ELSE st
    IN  DictPut(states, key, st2)

is_long(states, key, nowms) ==
    IF key \notin DOMAIN states \/ ~states[key].in_window \/ states[key].since_ms = NoneF
    THEN FALSE
    ELSE (nowms - states[key].since_ms) >= (LONG_SECS * 1000)

(***************************************************************************)
(* Quote table                                                             *)
(***************************************************************************)
\* mutant of on_quote: only the fields the update carries are overwritten
on_quote_merge_fields(table, market, pair, q) ==
    LET inner == DictGet(table, market, EmptyDict)
        old == DictGet(inner, pair, QuoteDefault)
        merged == [q EXCEPT !.bid = IF @ = NoneF THEN old.bid ELSE @,
                            !.ask = IF @ = NoneF THEN old.ask ELSE @,
                            !.bid_sz = IF @ = NoneF THEN old.bid_sz ELSE @,
                            !.ask_sz = IF @ = NoneF THEN old.ask_sz ELSE @,
                            !.bid_str = IF @ = None THEN old.bid_str ELSE @,
                            !.ask_str = IF @ = None THEN old.ask_str ELSE @]
    IN  DictPut(table, market, DictPut(inner, pair, merged))

\* on_quote: self.prices.setdefault(market, {})[pair] = q
on_quote(table, market, pair, q) ==
    DictPut(table, market, DictPut(DictGet(table, market, EmptyDict), pair, q))

\* q = self.prices.get(m, {}).get(pair): q is not None, and q
HasQuote(m, pair) == pair \in DOMAIN DictGet(prices, m, EmptyDict)

GetQuote(m, pair) == prices[m][pair]

(***************************************************************************)
(* Engine: compute_arbitrages                                              *)
(***************************************************************************)
\* markets = list(self.markets.keys()), filled by load_markets
markets == IF rpc = "init" THEN <<>> ELSE MARKETS_TO_USE

pairs_all == UNION {DOMAIN DictGet(prices, markets[i], EmptyDict) : i \in 1..Len(markets)}

\* mutant of avail: a quote of age STALE_SECS or more is left out
avail_fresh(pair) ==
    SelectSeq(markets, LAMBDA m : /\ HasQuote(m, pair)
                                  /\ GetQuote(m, pair).ask # NoneF
                                  /\ GetQuote(m, pair).bid # NoneF
                                  /\ ~AgeGe(age_sec(GetQuote(m, pair).ts_ms), STALE_SECS))

\* mutant of avail: a quote with an ask is enough
avail_ask_only(pair) ==
    SelectSeq(markets, LAMBDA m : HasQuote(m, pair) /\ GetQuote(m, pair).ask # NoneF)

\* avail: the venues, in markets order, whose quote of pair has both sides
avail(pair) ==
    SelectSeq(markets, LAMBDA m : /\ HasQuote(m, pair)
                                  /\ GetQuote(m, pair).ask # NoneF
                                  /\ GetQuote(m, pair).bid # NoneF)

\* the (pair, m_buy, m_sell) triples that reach the profit computation, in
\* the order of the nested loops
PairCandidates(pair) ==
    LET av == avail(pair) IN
    IF Len(av) < 2 THEN <<>>
    ELSE Flatten([i \in 1..Len(av) |->
            IF GetQuote(av[i], pair).ask = NoneF \/ GetQuote(av[i], pair).ask_sz = NoneF
            THEN <<>>
            ELSE Flatten([j \in 1..Len(av) |->
                    IF \/ av[j] = av[i]
                       \/ GetQuote(av[j], pair).bid = NoneF
                       \/ GetQuote(av[j], pair).bid_sz = NoneF
                    THEN <<>>
                    ELSE << <<pair, av[i], av[j]>> >>])])

Candidates(porder) == Flatten([i \in 1..Len(porder) |-> PairCandidates(porder[i])])

ProfitFrac(q_buy, q_sell) == [n |-> q_sell.bid - q_buy.ask, d |-> q_buy.ask]

ProfitPct(q_buy, q_sell) == [n |-> (q_sell.bid - q_buy.ask) * 100, d |-> q_buy.ask]

Min(a, b) == IF a <= b THEN a ELSE b

\* x or 0.0
OrZero(x) == IF x = NoneF THEN 0 ELSE x

MakeOp(key, q_buy, q_sell, states, nms) ==
    [pair |-> key[1], buy_mkt |-> key[2], sell_mkt |-> key[3],
     buy_price |-> q_buy.ask, sell_price |-> q_sell.bid,
     buy_price_str |-> q_buy.ask_str, sell_price_str |-> q_sell.bid_str,
     profit_pct |-> ProfitPct(q_buy, q_sell),
     buy_qty |-> OrZero(q_buy.ask_sz), sell_qty |-> OrZero(q_sell.bid_sz),
     exec_qty |-> Min(OrZero(q_buy.ask_sz), OrZero(q_sell.bid_sz)),
     qty |-> Min(OrZero(q_buy.ask_sz), OrZero(q_sell.bid_sz)),
     buy_age |-> age_sec(q_buy.ts_ms), sell_age |-> age_sec(q_sell.ts_ms),
     long |-> is_long(states, key, nms)]

\* mutant of ScanOne: the cap is tested after the hysteresis transition
ScanOne_cap_after_transition(acc, key, nms) ==
    LET q_buy == GetQuote(key[2], key[1])
        q_sell == GetQuote(key[3], key[1])
        profit_frac == ProfitFrac(q_buy, q_sell)
        profit_pct == ProfitPct(q_buy, q_sell)
        states == update_hysteresis(acc.states, key, profit_frac, nms)
        call == [key |-> key, profit_frac |-> profit_frac, nowms |-> nms,
                 ret |-> states[key].in_window]
    IN  IF RGt(profit_pct, [n |-> MAX_PROFIT_PCT, d |-> 1])
        THEN [acc EXCEPT !.states = states, !.capped = @ \cup {key}]
        ELSE IF ~states[key].in_window
        THEN [acc EXCEPT !.states = states, !.calls = Append(@, call)]
        ELSE [acc EXCEPT !.states = states, !.calls = Append(@, call),
                         !.ops = Append(@, MakeOp(key, q_buy, q_sell, states, nms))]

\* mutant of ScanOne: no cap
ScanOne_no_cap(acc, key, nms) ==
    LET q_buy == GetQuote(key[2], key[1])
        q_sell == GetQuote(key[3], key[1])
        profit_frac == ProfitFrac(q_buy, q_sell)
        states == update_hysteresis(acc.states, key, profit_frac, nms)
        call == [key |-> key, profit_frac |-> profit_frac, nowms |-> nms,
                 ret |-> states[key].in_window]
    IN  IF ~states[key].in_window
        THEN [acc EXCEPT !.states = states, !.calls = Append(@, call)]
        ELSE [acc EXCEPT !.states = states, !.calls = Append(@, call),
                         !.ops = Append(@, MakeOp(key, q_buy, q_sell, states, nms))]

\* mutant of ScanOne: every key that passes the cap is emitted, active or not
ScanOne_emit_inactive(acc, key, nms) ==
    LET q_buy == GetQuote(key[2], key[1])
        q_sell == GetQuote(key[3], key[1])
        profit_frac == ProfitFrac(q_buy, q_sell)
        profit_pct == ProfitPct(q_buy, q_sell)
        states == update_hysteresis(acc.states, key, profit_frac, nms)
        call == [key |-> key, profit_frac |-> profit_frac, nowms |-> nms,
                 ret |-> states[key].in_window]
    IN  IF RGt(profit_pct, [n |-> MAX_PROFIT_PCT, d |-> 1])
        THEN [acc EXCEPT !.capped = @ \cup {key}]
        ELSE [acc EXCEPT !.states = states, !.calls = Append(@, call),
                         !.ops = Append(@, MakeOp(key, q_buy, q_sell, states, nms))]

\* mutant of ScanOne: a key discarded by the cap leaves its window
ScanOne_cap_exits(acc, key, nms) ==
    LET q_buy == GetQuote(key[2], key[1])
        q_sell == GetQuote(key[3], key[1])
        profit_frac == ProfitFrac(q_buy, q_sell)
        profit_pct == ProfitPct(q_buy, q_sell)
        states == update_hysteresis(acc.states, key, profit_frac, nms)
        call == [key |-> key, profit_frac |-> profit_frac, nowms |-> nms,
                 ret |-> states[key].in_window]
    IN  IF RGt(profit_pct, [n |-> MAX_PROFIT_PCT, d |-> 1])
        THEN [acc EXCEPT !.capped = @ \cup {key},
                         !.states = DictPut(acc.states, key, ArbState)]
        ELSE IF ~states[key].in_window
        THEN [acc EXCEPT !.states = states, !.calls = Append(@, call)]
        ELSE [acc EXCEPT !.states = states, !.calls = Append(@, call),
                         !.ops = Append(@, MakeOp(key, q_buy, q_sell, states, nms))]

\* the body of the innermost loop for one (pair, m_buy, m_sell); acc holds
\* arb_states, the ops list, and a log of the update_hysteresis calls made
\* and of the keys discarded by the cap
ScanOne(acc, key, nms) ==
    LET q_buy == GetQuote(key[2], key[1])
        q_sell == GetQuote(key[3], key[1])
        profit_frac == ProfitFrac(q_buy, q_sell)
        profit_pct == ProfitPct(q_buy, q_sell)
        states == update_hysteresis(acc.states, key, profit_frac, nms)
        call == [key |-> key, profit_frac |-> profit_frac, nowms |-> nms,
                 ret |-> states[key].in_window]
    IN  IF q_buy.ask = 0
        THEN \* (q_sell.bid - q_buy.ask) / q_buy.ask raises ZeroDivisionError
             [acc EXCEPT !.raised = TRUE]
        ELSE IF RGt(profit_pct, [n |-> MAX_PROFIT_PCT, d |-> 1])
        THEN [acc EXCEPT !.capped = @ \cup {key}]
        ELSE IF ~states[key].in_window
        THEN [acc EXCEPT !.states = states, !.calls = Append(@, call)]
        ELSE [acc EXCEPT !.states = states, !.calls = Append(@, call),
                         !.ops = Append(@, MakeOp(key, q_buy, q_sell, states, nms))]

RECURSIVE Scan(_, _, _)
Scan(cands, acc, nms) ==
    IF cands = <<>> \/ acc.raised THEN acc
    ELSE Scan(Tail(cands), ScanOne(acc, Head(cands), nms), nms)

\* list.sort(key=lambda d: d["profit_pct"], reverse=True): stable, descending
RECURSIVE InsertDesc(_, _)
InsertDesc(s, x) ==
    IF s = <<>> THEN <<x>>
    ELSE IF RGe(Head(s).profit_pct, x.profit_pct)
         THEN <<Head(s)>> \o InsertDesc(Tail(s), x)
         ELSE <<x>> \o s

\* mutant of SortByProfit: the list is returned in scan order
SortByProfit_unsorted(s) == s

RECURSIVE SortByProfitFrom(_, _)
SortByProfitFrom(s, sorted) ==
    IF s = <<>> THEN sorted
    ELSE SortByProfitFrom(Tail(s), InsertDesc(sorted, Head(s)))

SortByProfit(s) == SortByProfitFrom(s, <<>>)

\* mutant of compute_arbitrages: a key the scan did not evaluate leaves its window
compute_arbitrages_exit_unseen(porder) ==
    LET acc == Scan(Candidates(porder),
                    [states |-> arb_states, ops |-> <<>>, calls |-> <<>>, capped |-> {},
                     raised |-> FALSE],
                    now)
        seen == {acc.calls[i].key : i \in 1..Len(acc.calls)}
    IN  [acc EXCEPT !.ops = SortByProfit(@),
                    !.states = [k \in DOMAIN acc.states |->
                                   IF k \in seen THEN acc.states[k] ELSE ArbState]]

\* compute_arbitrages with pairs_all iterated in the order porder; an
\* exception raised in the loops leaves the function before the sort, with
\* the arb_states updates made so far in place
compute_arbitrages(porder) ==
    LET acc == Scan(Candidates(porder),
                    [states |-> arb_states, ops |-> <<>>, calls |-> <<>>, capped |-> {},
                     raised |-> FALSE],
                    now)
    IN  IF acc.raised THEN [acc EXCEPT !.ops = <<>>]
        ELSE [acc EXCEPT !.ops = SortByProfit(@)]

(***************************************************************************)
(* Engine: list_stale                                                      *)
(***************************************************************************)
StaleRow(mkt, pair) ==
    [mkt |-> mkt, pair |-> pair, age |-> age_sec(prices[mkt][pair].ts_ms),
     q |-> prices[mkt][pair]]

\* mutant of IsStaleAge: strictly older than STALE_SECS
IsStaleAge_strict(a) == a.inf \/ a.ms > STALE_SECS * 1000

\* a >= config.STALE_SECS
IsStaleAge(a) == AgeGe(a, STALE_SECS)

\* sort key (-age, mkt, pair)
StaleBefore(x, y) ==
    \/ x.age.inf /\ ~y.age.inf
    \/ ~x.age.inf /\ ~y.age.inf /\ x.age.ms > y.age.ms
    \/ x.age = y.age /\ StrLess(x.mkt, y.mkt)
    \/ x.age = y.age /\ x.mkt = y.mkt /\ StrLess(x.pair, y.pair)

RECURSIVE SortStale(_)
SortStale(S) ==
    IF S = {} THEN <<>>
    ELSE LET m == CHOOSE x \in S : \A y \in S : x = y \/ StaleBefore(x, y)
         IN  <<m>> \o SortStale(S \ {m})

list_stale ==
    SortStale({r \in {StaleRow(k[1], k[2]) :
                        k \in {kk \in (DOMAIN prices) \X Pairs : kk[2] \in DOMAIN prices[kk[1]]}} :
               IsStaleAge(r.age)})

(***************************************************************************)
(* Supervisor                                                              *)
(***************************************************************************)
\* load_markets: self.prices[name] = {} for every configured venue
load_markets == [m \in Venues |-> EmptyDict]

\* mutant of load_callback: the lambda reads the loop variable when it is called
load_callback_late_binding(name) == MARKETS_TO_USE[Len(MARKETS_TO_USE)]

\* load_markets: the venue name the callback of connector name passes to
\* App.on_quote; lambda pair, q, mkt=name binds mkt when the lambda is
\* created, in the iteration that loads name
load_callback(name) ==
    LET i == CHOOSE j \in 1..Len(MARKETS_TO_USE) : MARKETS_TO_USE[j] = name
    IN  MARKETS_TO_USE[i]

\* discover, after mkt.discover returned ok for venue name:
\* self.prices[name] = {p: self.prices.get(name, {}).get(p, Quote()) for p in ok}
discover_prices(table, name, ok) ==
    DictPut(table, name,
            [p \in ok |-> DictGet(DictGet(table, name, EmptyDict), p, QuoteDefault)])

\* _run_markets_once: the pairs handed to mkt.run for each venue
\* (no task for a venue without supported pairs)
run_markets_once(sup) == [m \in Venues |-> DictGet(sup, m, {})]

NoSessions == [m \in Venues |-> {}]

\* no discover call in progress
NoDisc == [pairs |-> <<>>, i |-> 0, caller |-> "none", new_key |-> <<>>,
           pre_supported |-> EmptyDict, pre_prices |-> EmptyDict]

(***************************************************************************)
(* Inputs                                                                  *)
(***************************************************************************)
\* what the connectors publish: Quotes stamped with the time of acceptance
QuoteInputs(ts) ==
    { Quote(1002, 1000, 2, 1, "1002", "1000", ts),
      Quote(1003, 1000, 2, 1, "1003", "1000", ts),
      Quote(1004, 1000, 2, 1, None, None, ts),
      Quote(1100, 1000, 1, 2, "1100", "1000", ts),
      Quote(1101, 1000, 1, 2, "1101", "1000", ts),
      Quote(NoneF, 1000, NoneF, 1, None, "1000", ts),
      Quote(1004, 1000, NoneF, 1, "1004", "1000", ts) }

\* desired-pairs lists produced by make_pairs from the universe file
DesiredLists ==
    { <<"BTC/USDT">>, <<"ADA/USDT">>, <<"ADA/USDT", "BTC/USDT">>, <<"BTC/USDT", "ADA/USDT">> }

(***************************************************************************)
(* Actions                                                                 *)
(***************************************************************************)
\* a running session of venue market publishes q for a pair of its batch:
\* self.on_quote(pair, q) calls the callback load_markets gave the connector
OnQuote(market, pair, q) ==
    /\ pair \in sessions[market]
    /\ prices' = on_quote(prices, load_callback(market), pair, q)
    /\ last' = [op |-> "on_quote", market |-> market, pair |-> pair, q |-> q]
    /\ UNCHANGED <<fcall, conn, now, ticks, supported, arb_states, entered, market_task, sessions,
                   current_pairs_key, started, rpc, disc>>

\* a compute_arbitrages call and what it leaves behind
ComputeCall ==
    /\ started
    /\ \E porder \in Orders(pairs_all) :
          LET r == compute_arbitrages(porder) IN
          /\ arb_states' = r.states
          /\ entered' = [k \in Keys |->
                IF k \in DOMAIN r.states /\ r.states[k].in_window
                THEN IF k \in DOMAIN arb_states /\ arb_states[k].in_window
                     THEN entered[k] ELSE now
                ELSE NoneF]
          /\ last' = [op |-> "compute", nms |-> now, calls |-> r.calls,
                      capped |-> r.capped, ops |-> r.ops, raised |-> r.raised]
    /\ UNCHANGED <<conn, now, ticks, prices, supported, market_task, sessions,
                   current_pairs_key, started, rpc, disc>>

\* ui_loop (or a bot command) calls compute_arbitrages
Compute == ComputeCall /\ UNCHANGED fcall

\* ui_loop (or a bot command) calls list_stale
ListStale ==
    /\ started
    /\ last' = [op |-> "list_stale", rows |-> list_stale]
    /\ UNCHANGED <<fcall, conn, now, ticks, prices, supported, arb_states, entered, market_task, sessions,
                   current_pairs_key, started, rpc, disc>>

\* time passes
Advance(steps, max) ==
    /\ ticks < max
    /\ ticks' = ticks + 1
    /\ now' = now + TickStep(steps, ticks + 1)
    /\ last' = [op |-> "tick"]
    /\ UNCHANGED <<fcall, conn, prices, supported, arb_states, entered, market_task, sessions,
                   current_pairs_key, started, rpc, disc>>

Tick == Advance(TickSteps, MaxTicks)

TickAging == Advance(AgingSteps, MaxAgingTicks)

\* App.run up to the first suspension of discover
Run(desired_pairs) ==
    /\ rpc = "init"
    /\ prices' = load_markets
    /\ current_pairs_key' = pairs_key(desired_pairs)
    /\ supported' = EmptyDict
    /\ rpc' = "discover"
    /\ disc' = [pairs |-> desired_pairs, i |-> 1, caller |-> "run",
                new_key |-> pairs_key(desired_pairs),
                pre_supported |-> supported, pre_prices |-> prices]
    /\ last' = [op |-> "run"]
    /\ UNCHANGED <<fcall, conn, now, ticks, arb_states, entered, market_task, sessions, started>>

\* periodic_universe_refresh wakes up with a refreshed universe
Refresh(new_pairs) ==
    /\ rpc = "idle"
    /\ started
    /\ IF pairs_key(new_pairs) # current_pairs_key
       THEN /\ supported' = EmptyDict
            /\ rpc' = "discover"
            /\ disc' = [pairs |-> new_pairs, i |-> 1, caller |-> "refresh",
                        new_key |-> pairs_key(new_pairs),
                        pre_supported |-> supported, pre_prices |-> prices]
            /\ last' = [op |-> "refresh", changed |-> TRUE, pairs |-> new_pairs]
       ELSE /\ last' = [op |-> "refresh", changed |-> FALSE, pairs |-> new_pairs]
            /\ UNCHANGED <<supported, rpc, disc>>
    /\ UNCHANGED <<fcall, conn, now, ticks, prices, arb_states, entered, market_task, sessions,
                   current_pairs_key, started>>

\* discover resumes with the answer ok of the venue it awaited; after the
\* last venue it returns and its caller goes on into start_markets, which
\* runs up to its await of the cancelled task or to its end
DiscoverVenue(ok) ==
    /\ rpc = "discover"
    /\ ok \subseteq SeqToSet(disc.pairs)
    /\ LET name == MARKETS_TO_USE[disc.i]
           sup == DictPut(supported, name, ok)
       IN  /\ supported' = sup
           /\ prices' = discover_prices(prices, name, ok)
           /\ IF disc.i < Len(MARKETS_TO_USE)
              THEN /\ disc' = [disc EXCEPT !.i = @ + 1]
                   /\ last' = [op |-> "discover", venue |-> name]
                   /\ UNCHANGED <<market_task, sessions, current_pairs_key, started, rpc>>
              ELSE IF market_task = "running"
              THEN \* self.market_task.cancel(); await self.market_task
                   /\ market_task' = "cancelled"
                   /\ sessions' = NoSessions
                   /\ rpc' = "await_market_task"
                   /\ last' = [op |-> "cancel", venue |-> name]
                   /\ UNCHANGED <<disc, current_pairs_key, started>>
              ELSE \* self.market_task = asyncio.create_task(self._run_markets_once())
                   /\ sessions' = run_markets_once(sup)
                   /\ market_task' = IF \E m \in Venues : run_markets_once(sup)[m] # {}
                                     THEN "running" ELSE "done"
                   /\ current_pairs_key' = disc.new_key
                   /\ started' = TRUE
                   /\ rpc' = "idle"
                   /\ disc' = NoDisc
                   /\ last' = [op |-> "start_markets", caller |-> disc.caller,
                               new_key |-> disc.new_key]
    /\ UNCHANGED <<fcall, conn, now, ticks, arb_states, entered>>

\* await self.market_task on the cancelled task raises CancelledError, which
\* contextlib.suppress(Exception) lets through: it leaves start_markets and
\* periodic_universe_refresh, and the refresher task ends
AwaitMarketTask ==
    /\ rpc = "await_market_task"
    /\ rpc' = "dead"
    /\ last' = [op |-> "refresher_cancelled", new_key |-> disc.new_key]
    /\ disc' = NoDisc
    /\ UNCHANGED <<fcall, conn, now, ticks, prices, supported, arb_states, entered, market_task, sessions,
                   current_pairs_key, started>>

(***************************************************************************)
(* Connectors (src/markets/*.py): venues, symbols, strings and frames      *)
(***************************************************************************)
\* the connector modules
ConnVenues ==
    {"binance", "kucoin", "htx", "gate", "okx", "kraken",
     "coinbase", "bitstamp", "bitfinex", "bitget", "bybit", "lbank"}

\* connectors that read bids[0] and asks[0] of every frame
TopVenues == {"binance", "kucoin", "htx", "gate", "okx"}

\* connectors that keep a book keyed by f"{price:.12f}" (_set_level, _best_levels)
StrBookVenues == {"bybit", "coinbase", "bitget", "bitstamp", "lbank"}

\* connectors that keep a book keyed by the float price and route by channel id
ChanVenues == {"kraken", "bitfinex"}

BookVenues == StrBookVenues \cup ChanVenues

\* connectors that answer an application-level ping frame with ws.send
PongVenues == {"htx", "lbank", "bybit"}

\* connectors whose pong is sent inside try: ... except: pass
PongSwallowVenues == {"htx", "lbank"}

\* connectors that call data.get(...) on whatever json.loads returned
GetOnAnyVenues ==
    {"binance", "htx", "gate", "coinbase", "bitstamp", "bitget", "bybit", "lbank"}

\* the batch of the session: one chunk of sorted(pairs)
ConnBatch == {"BTC/USDT"}

\* the venue-native symbol of a canonical pair
NativeSym(v, pair) ==
    LET btc == pair = "BTC/USDT"
    IN  CASE v \in {"binance", "bybit", "bitget"} -> IF btc THEN "BTCUSDT" ELSE "ADAUSDT"
          [] v \in {"htx", "bitstamp"} -> IF btc THEN "btcusdt" ELSE "adausdt"
          [] v = "gate" -> IF btc THEN "BTC_USDT" ELSE "ADA_USDT"
          [] v = "lbank" -> IF btc THEN "btc_usdt" ELSE "ada_usdt"
          [] v \in {"okx", "kucoin", "coinbase"} -> IF btc THEN "BTC-USDT" ELSE "ADA-USDT"
          [] v = "kraken" -> IF btc THEN "XBT/USDT" ELSE "ADA/USDT"
          [] v = "bitfinex" -> IF btc THEN "tBTCUST" ELSE "tADAUST"

\* mutant of RoutePair: the symbol is mapped back without the batch test
RoutePair_no_batch_check(v, sym, batch) ==
    IF \E p \in Pairs : NativeSym(v, p) = sym
    THEN CHOOSE p \in Pairs : NativeSym(v, p) = sym
    ELSE None

\* the canonical pair of the batch a venue symbol maps back to, or None
RoutePair(v, sym, batch) ==
    IF \E p \in batch : NativeSym(v, p) = sym
    THEN CHOOSE p \in batch : NativeSym(v, p) = sym
    ELSE None

\* float(s): the value, or NoneF where float raises ValueError
ParseFloat(s) ==
    CASE s = "0" -> 0
      [] s = "1" -> 1
      [] s \in {"98", "98.000000000000"} -> 98
      [] s \in {"99", "99.000000000000"} -> 99
      [] s \in {"100", "100.000000000000"} -> 100
      [] s \in {"101", "101.000000000000"} -> 101
      [] OTHER -> NoneF

\* f"{x:.12f}"
Fmt12(x) ==
    CASE x = 0 -> "0.000000000000"
      [] x = 1 -> "1.000000000000"
      [] x = 98 -> "98.000000000000"
      [] x = 99 -> "99.000000000000"
      [] x = 100 -> "100.000000000000"
      [] x = 101 -> "101.000000000000"

\* the price strings venues send
VenuePriceStrings == {"98", "99", "100", "101"}

\* the string a venue sends for a price
VenueStr(x) == CHOOSE s \in VenuePriceStrings : ParseFloat(s) = x

\* one [price, size] entry of a frame
Level(px, sz) == [px |-> px, sz |-> sz]

\* an inbound websocket frame
Frame(kind, typ, sym, chan, bids, asks) ==
    [kind |-> kind, typ |-> typ, sym |-> sym, chan |-> chan, bids |-> bids, asks |-> asks]

BidLists ==
    { <<>>,
      <<Level("99", "1")>>,
      <<Level("98", "1")>>,
      <<Level("99", "1"), Level("98", "1")>>,
      <<Level("99", "0")>>,
      <<Level("abc", "1")>> }

AskLists ==
    { <<>>,
      <<Level("100", "1")>>,
      <<Level("101", "1")>>,
      <<Level("100", "0")>> }

\* channel ids a venue may assign
ChanIds == {1, 2}

\* the frames a session of venue v may receive
Frames(v) ==
    LET mapped == NativeSym(v, "BTC/USDT")
        other == NativeSym(v, "ADA/USDT")
        snapshots == { Frame("data", "snapshot", mapped, 1, b, a) : b \in BidLists, a \in AskLists }
        deltas == IF v \in TopVenues \cup {"lbank"} THEN {}
                  ELSE { Frame("data", "delta", mapped, 1, b, <<>>) : b \in BidLists \ {<<>>} }
                       \cup { Frame("data", "delta", mapped, 1, <<>>, a) : a \in AskLists \ {<<>>} }
        data == snapshots \cup deltas
        single == { f \in data : f.typ = "snapshot" \/ Len(f.bids) + Len(f.asks) = 1 }
    IN  (IF v = "bitfinex" THEN single ELSE data)
        \cup { Frame("data", "snapshot", other, 2, <<Level("99", "1")>>, <<Level("100", "1")>>) }
        \cup { Frame("garbage", "none", "none", 0, <<>>, <<>>),
               Frame("nonobject", "none", "none", 0, <<>>, <<>>),
               Frame("ctrl", "none", "none", 0, <<>>, <<>>) }
        \cup (IF v \in PongVenues THEN { Frame("ping", "none", "none", 0, <<>>, <<>>) } ELSE {})
        \cup (IF v \in ChanVenues
              THEN { Frame("ack", "none", mapped, 1, <<>>, <<>>),
                     Frame("ack", "none", other, 2, <<>>, <<>>) }
              ELSE {})

(***************************************************************************)
(* Connectors: what _consume does with one frame                           *)
(***************************************************************************)
\* what a frame led to, with the Quote passed to on_quote when it is "publish"
Outcome(out, q) == [out |-> out, q |-> q]

Dropped == Outcome("drop", QuoteDefault)

\* float() of the price and of the size of bids[0] or asks[0]
TopPx(list) == IF list = <<>> THEN NoneF ELSE ParseFloat(list[1].px)

TopSz(list) == IF list = <<>> THEN NoneF ELSE ParseFloat(list[1].sz)

TopStr(list) == IF list = <<>> THEN None ELSE list[1].px

\* float(price), float(size) raised for the first level of a side
TopFails(list) == list # <<>> /\ (TopPx(list) = NoneF \/ TopSz(list) = NoneF)

\* binance: both sides are required, any parse error skips the frame
consume_binance(f, ts) ==
    IF f.bids = <<>> \/ f.asks = <<>> THEN Dropped
    ELSE IF TopFails(f.bids) \/ TopFails(f.asks) THEN Dropped
    ELSE Outcome("publish", Quote(TopPx(f.bids), TopPx(f.asks), TopSz(f.bids), TopSz(f.asks),
                                  TopStr(f.bids), TopStr(f.asks), ts))

\* kucoin, okx: a side may be missing, any parse error skips the frame
consume_okx(f, ts) ==
    IF TopFails(f.bids) \/ TopFails(f.asks) THEN Dropped
    ELSE IF TopPx(f.bids) = NoneF /\ TopPx(f.asks) = NoneF THEN Dropped
    ELSE Outcome("publish", Quote(TopPx(f.bids), TopPx(f.asks), TopSz(f.bids), TopSz(f.asks),
                                  TopStr(f.bids), TopStr(f.asks), ts))

\* mutant of consume_gate: no test for both sides absent
consume_gate_no_empty_check(f, ts) ==
    LET bid_ok == f.bids # <<>> /\ ~TopFails(f.bids)
        ask_ok == f.asks # <<>> /\ ~TopFails(f.asks)
    IN  Outcome("publish",
                Quote(IF bid_ok THEN TopPx(f.bids) ELSE NoneF,
                      IF ask_ok THEN TopPx(f.asks) ELSE NoneF,
                      IF bid_ok THEN TopSz(f.bids) ELSE NoneF,
                      IF ask_ok THEN TopSz(f.asks) ELSE NoneF,
                      TopStr(f.bids), TopStr(f.asks), ts))

\* mutant of consume_gate: a price that does not parse leaves the size set
consume_gate_keep_size(f, ts) ==
    LET bid_ok == f.bids # <<>> /\ ~TopFails(f.bids)
        ask_ok == f.asks # <<>> /\ ~TopFails(f.asks)
        bid_px == IF bid_ok THEN TopPx(f.bids) ELSE NoneF
        ask_px == IF ask_ok THEN TopPx(f.asks) ELSE NoneF
    IN  IF bid_px = NoneF /\ ask_px = NoneF /\ TopSz(f.bids) = NoneF /\ TopSz(f.asks) = NoneF
        THEN Dropped
        ELSE Outcome("publish", Quote(bid_px, ask_px, TopSz(f.bids), TopSz(f.asks),
                                      TopStr(f.bids), TopStr(f.asks), ts))

\* gate, htx: each side is parsed on its own; a side that does not parse is
\* absent (its string stays), and a frame with both sides absent is skipped
consume_gate(f, ts) ==
    LET bid_ok == f.bids # <<>> /\ ~TopFails(f.bids)
        ask_ok == f.asks # <<>> /\ ~TopFails(f.asks)
        bid_px == IF bid_ok THEN TopPx(f.bids) ELSE NoneF
        ask_px == IF ask_ok THEN TopPx(f.asks) ELSE NoneF
    IN  IF bid_px = NoneF /\ ask_px = NoneF THEN Dropped
        ELSE Outcome("publish",
                     Quote(bid_px, ask_px,
                           IF bid_ok THEN TopSz(f.bids) ELSE NoneF,
                           IF ask_ok THEN TopSz(f.asks) ELSE NoneF,
                           TopStr(f.bids), TopStr(f.asks), ts))

\* the top-of-book connectors
consume_top(v, f, ts) ==
    CASE v = "binance" -> consume_binance(f, ts)
      [] v \in {"kucoin", "okx"} -> consume_okx(f, ts)
      [] v \in {"gate", "htx"} -> consume_gate(f, ts)

\* one side of an order book: key -> size
DictPop(d, k) == [x \in (DOMAIN d) \ {k} |-> d[x]]

\* the key of a price level: f"{price:.12f}", or the float itself
LevelKey(v, price) == IF v \in StrBookVenues THEN Fmt12(price) ELSE price

\* mutant of set_level: a zero size is stored like any other size
set_level_keep_zero(v, levels, price, size) ==
    DictPut(levels, LevelKey(v, price), size)

\* _set_level (and the inline pop-or-store of kraken and bitfinex)
set_level(v, levels, price, size) ==
    IF size = 0 THEN DictPop(levels, LevelKey(v, price))
    ELSE DictPut(levels, LevelKey(v, price), size)

\* the levels of a frame applied in order; an entry that does not parse is skipped
RECURSIVE ApplyLevels(_, _, _)
ApplyLevels(v, levels, list) ==
    IF list = <<>> THEN levels
    ELSE LET price == ParseFloat(Head(list).px)
             size == ParseFloat(Head(list).sz)
         IN  ApplyLevels(v,
                         IF price = NoneF \/ size = NoneF THEN levels
                         ELSE set_level(v, levels, price, size),
                         Tail(list))

EmptyBook == [bids |-> EmptyDict, asks |-> EmptyDict]

SetMax(S) == CHOOSE x \in S : \A y \in S : y <= x

SetMin(S) == CHOOSE x \in S : \A y \in S : x <= y

\* the prices _best_levels chooses from (sizes > 0), or the keys of the dict
LevelPrices(v, levels) ==
    IF v \in StrBookVenues
    THEN {ParseFloat(k) : k \in {x \in DOMAIN levels : levels[x] > 0}}
    ELSE DOMAIN levels

NoLevel == [px |-> NoneF, sz |-> NoneF]

\* _best_levels for one side: the highest bid, the lowest ask
best_level(v, levels, side) ==
    LET cand == LevelPrices(v, levels)
    IN  IF cand = {} THEN NoLevel
        ELSE LET p == IF side = "buy" THEN SetMax(cand) ELSE SetMin(cand)
             IN  [px |-> p, sz |-> levels[LevelKey(v, p)]]

\* mutant of apply_book: a snapshot is applied on top of the levels held
apply_book_no_reset(v, book, f) ==
    [bids |-> ApplyLevels(v, book.bids, f.bids), asks |-> ApplyLevels(v, book.asks, f.asks)]

\* the book after a frame: a snapshot resets it, a delta updates it
apply_book(v, book, f) ==
    IF f.typ = "snapshot"
    THEN [bids |-> ApplyLevels(v, EmptyDict, f.bids), asks |-> ApplyLevels(v, EmptyDict, f.asks)]
    ELSE [bids |-> ApplyLevels(v, book.bids, f.bids), asks |-> ApplyLevels(v, book.asks, f.asks)]

\* bitfinex: a single-level update whose numbers do not parse is skipped
BookFrameSkipped(v, f) ==
    /\ v = "bitfinex"
    /\ f.typ = "delta"
    /\ \E l \in SeqToSet(f.bids \o f.asks) : ParseFloat(l.px) = NoneF \/ ParseFloat(l.sz) = NoneF

\* the snapshot+delta connectors: apply the frame, read the best levels,
\* publish them rendered with f"{px:.12f}" unless both sides are empty
consume_book(v, book, f, ts) ==
    IF BookFrameSkipped(v, f) THEN [out |-> "drop", q |-> QuoteDefault, book |-> book]
    ELSE LET b == apply_book(v, book, f)
             bb == best_level(v, b.bids, "buy")
             aa == best_level(v, b.asks, "sell")
         IN  IF bb = NoLevel /\ aa = NoLevel
             THEN [out |-> "drop", q |-> QuoteDefault, book |-> b]
             ELSE [out |-> "publish",
                   q |-> Quote(bb.px, aa.px, bb.sz, aa.sz,
                               IF bb.px # NoneF THEN Fmt12(bb.px) ELSE None,
                               IF aa.px # NoneF THEN Fmt12(aa.px) ELSE None,
                               ts),
                   book |-> b]

\* the loop body of _consume for one frame: the outcome, the pair it was
\* routed to, the Quote published, and the locals after it
consume_frame(c, f, ts) ==
    LET v == c.venue
        same(out) ==
            [out |-> out, pair |-> None, q |-> QuoteDefault,
             books |-> c.books, chan_to_pair |-> c.chan_to_pair,
             pos |-> CASE out = "raise" -> "backoff"
                       [] out = "pong" -> "pong"
                       [] OTHER -> "receiving"]
    IN  CASE f.kind = "garbage" -> same("drop")
          [] f.kind = "nonobject" -> IF v \in GetOnAnyVenues THEN same("raise") ELSE same("drop")
          [] f.kind = "ctrl" -> same("drop")
          [] f.kind = "ping" -> IF v \in PongVenues THEN same("pong") ELSE same("drop")
          [] f.kind = "ack" ->
                LET pair == RoutePair(v, f.sym, ConnBatch)
                IN  IF v \in ChanVenues /\ pair # None
                    THEN [same("drop") EXCEPT !.chan_to_pair = DictPut(c.chan_to_pair, f.chan, pair)]
                    ELSE same("drop")
          [] f.kind = "data" ->
                LET pair == IF v \in ChanVenues THEN DictGet(c.chan_to_pair, f.chan, None)
                            ELSE RoutePair(v, f.sym, ConnBatch)
                IN  IF pair = None THEN same("drop")
                    ELSE IF v \in TopVenues
                    THEN LET r == consume_top(v, f, ts)
                         IN  [same(r.out) EXCEPT !.pair = pair, !.q = r.q]
                    ELSE LET r == consume_book(v, DictGet(c.books, pair, EmptyBook), f, ts)
                         IN  [same(r.out) EXCEPT !.pair = pair, !.q = r.q,
                                                 !.books = DictPut(c.books, pair, r.book)]

(***************************************************************************)
(* Connectors: the session (_consume) and its cancellation                 *)
(***************************************************************************)
\* no session is modelled
\* no function call under study
NoCall == [fn |-> "none"]

NoConn ==
    [venue |-> "none", pos |-> "none", books |-> EmptyDict, chan_to_pair |-> EmptyDict,
     cancelled |-> FALSE, snap_here |-> FALSE, snap_before |-> FALSE]

\* _consume(batch) of venue v entering its while True loop
NewSession(v) ==
    [venue |-> v, pos |-> "connecting",
     books |-> IF v \in StrBookVenues THEN [p \in ConnBatch |-> EmptyBook] ELSE EmptyDict,
     chan_to_pair |-> EmptyDict,
     cancelled |-> FALSE, snap_here |-> FALSE, snap_before |-> FALSE]

\* the connection of the session is over: what it received is of an earlier connection
EndConnection(c) ==
    [c EXCEPT !.snap_before = c.snap_before \/ c.snap_here, !.snap_here = FALSE]

\* websockets.connect succeeds and the subscribe frames are sent
ConnConnect ==
    /\ conn.pos = "connecting"
    /\ conn' = [conn EXCEPT
                  !.pos = "receiving",
                  !.chan_to_pair = EmptyDict,
                  !.books = IF conn.venue \in ChanVenues
                            THEN [p \in ConnBatch |-> EmptyBook]
                            ELSE @]
    /\ last' = [op |-> "connect"]
    /\ UNCHANGED <<fcall, now, ticks, prices, supported, arb_states, entered, market_task, sessions,
                   current_pairs_key, started, rpc, disc>>

\* websockets.connect or a subscribe send raises: except Exception, sleep(3)
ConnConnectFail ==
    /\ conn.pos = "connecting"
    /\ conn' = [conn EXCEPT !.pos = "backoff"]
    /\ last' = [op |-> "connect_fail"]
    /\ UNCHANGED <<fcall, now, ticks, prices, supported, arb_states, entered, market_task, sessions,
                   current_pairs_key, started, rpc, disc>>

\* a data frame reached the book of a pair
BookApplied(v, f, r) ==
    /\ v \in BookVenues
    /\ f.kind = "data"
    /\ r.pair # None

\* the snapshot of a frame was applied to the book of a pair
SnapshotApplied(v, f, r) == BookApplied(v, f, r) /\ f.typ = "snapshot"

\* async for delivers a frame and the loop body runs on it
ConnFrame(f) ==
    /\ conn.pos = "receiving"
    /\ \E r \in {consume_frame(conn, f, now)} :
       LET c == [conn EXCEPT !.pos = r.pos, !.books = r.books, !.chan_to_pair = r.chan_to_pair,
                             !.snap_here = @ \/ SnapshotApplied(conn.venue, f, r)]
       IN  /\ conn' = IF r.out = "raise" THEN EndConnection(c) ELSE c
           /\ prices' = IF r.out = "publish" THEN on_quote(prices, conn.venue, r.pair, r.q)
                        ELSE prices
           /\ last' = [op |-> "frame", f |-> f, out |-> r.out, pair |-> r.pair, q |-> r.q,
                       before |-> IF BookApplied(conn.venue, f, r)
                                  THEN DictGet(conn.books, r.pair, EmptyBook)
                                  ELSE EmptyBook]
    /\ UNCHANGED <<fcall, now, ticks, supported, arb_states, entered, market_task, sessions,
                   current_pairs_key, started, rpc, disc>>

\* await ws.send(pong) returns (sent), or raises because the connection broke
ConnPong(sent) ==
    /\ conn.pos = "pong"
    /\ conn' = IF sent \/ conn.venue \in PongSwallowVenues
               THEN [conn EXCEPT !.pos = "receiving"]
               ELSE EndConnection([conn EXCEPT !.pos = "backoff"])
    /\ last' = [op |-> "pong", sent |-> sent]
    /\ UNCHANGED <<fcall, now, ticks, prices, supported, arb_states, entered, market_task, sessions,
                   current_pairs_key, started, rpc, disc>>

\* the connection ends while the session waits for a frame: with an error
\* (ConnectionClosedError, OSError: async for raises into except Exception),
\* or closed normally by the server (async for ends, while True goes on)
ConnLost(kind) ==
    /\ conn.pos = "receiving"
    /\ conn' = EndConnection([conn EXCEPT !.pos = IF kind = "error" THEN "backoff"
                                                 ELSE "connecting"])
    /\ last' = [op |-> "conn_lost", kind |-> kind]
    /\ UNCHANGED <<fcall, now, ticks, prices, supported, arb_states, entered, market_task, sessions,
                   current_pairs_key, started, rpc, disc>>

\* asyncio.sleep(3) returns
ConnBackoffDone ==
    /\ conn.pos = "backoff"
    /\ conn' = [conn EXCEPT !.pos = "connecting"]
    /\ last' = [op |-> "backoff_done"]
    /\ UNCHANGED <<fcall, now, ticks, prices, supported, arb_states, entered, market_task, sessions,
                   current_pairs_key, started, rpc, disc>>

\* start_markets cancels the market task: CancelledError is raised in the
\* session where it is suspended; around the pong send of htx and lbank a
\* bare except catches it and the loop goes on
ConnCancel ==
    /\ ~conn.cancelled
    /\ conn.pos \in {"connecting", "receiving", "pong", "backoff"}
    /\ conn' = [conn EXCEPT
                  !.cancelled = TRUE,
                  !.pos = IF conn.pos = "pong" /\ conn.venue \in PongSwallowVenues
                          THEN "receiving"
                          ELSE "terminated"]
    /\ market_task' = "cancelled"
    /\ last' = [op |-> "cancel", at |-> conn.pos]
    /\ UNCHANGED <<fcall, now, ticks, prices, supported, arb_states, entered, sessions,
                   current_pairs_key, started, rpc, disc>>

(***************************************************************************)
(* Specifications                                                          *)
(***************************************************************************)
\* the state after App() is constructed
Init ==
    /\ now = T0
    /\ ticks = 0
    /\ prices = EmptyDict
    /\ supported = EmptyDict
    /\ arb_states = EmptyDict
    /\ entered = [k \in Keys |-> NoneF]
    /\ market_task = "none"
    /\ sessions = NoSessions
    /\ current_pairs_key = <<>>
    /\ started = FALSE
    /\ rpc = "init"
    /\ disc = NoDisc
    /\ conn = NoConn
    /\ fcall = NoCall
    /\ last = [op |-> "init"]

\* the program serving with the configuration of config.py
\* (REFRESH_UNIVERSE_ENABLED = False): App.run has discovered BTC/USDT on
\* both venues, started their sessions and entered ui_loop
EngineInit ==
    /\ now = T0
    /\ ticks = 0
    /\ prices = [m \in Venues |-> [p \in {"BTC/USDT"} |-> QuoteDefault]]
    /\ supported = [m \in Venues |-> {"BTC/USDT"}]
    /\ arb_states = EmptyDict
    /\ entered = [k \in Keys |-> NoneF]
    /\ market_task = "running"
    /\ sessions = [m \in Venues |-> {"BTC/USDT"}]
    /\ current_pairs_key = <<"BTC/USDT">>
    /\ started = TRUE
    /\ rpc = "off"
    /\ disc = NoDisc
    /\ conn = NoConn
    /\ fcall = NoCall
    /\ last = [op |-> "start_markets", caller |-> "run", new_key |-> <<"BTC/USDT">>]

\* the engine scanning a changing quote table
EngineNext ==
    \/ \E m \in Venues, p \in Pairs, q \in QuoteInputs(now) : OnQuote(m, p, q)
    \/ Compute
    \/ Tick

EngineSpec == EngineInit /\ [][EngineNext]_vars

\* quotes published while quotes age
AgingQuoteInputs(ts) ==
    { Quote(1002, 1000, 2, 1, "1002", "1000", ts),
      Quote(1100, 1000, 1, 2, "1100", "1000", ts) }

\* the engine and the stale list over quotes that age up to STALE_SECS
AgingNext ==
    \/ \E m \in Venues, p \in Pairs, q \in AgingQuoteInputs(now) : OnQuote(m, p, q)
    \/ Compute
    \/ ListStale
    \/ TickAging

AgingSpec == EngineInit /\ [][AgingNext]_vars

\* quotes the connectors can publish: crossed books, and a best ask of 0
\* (gate and the other connectors publish float(price) whatever its value)
EdgeQuoteInputs(ts) ==
    { Quote(1002, 1000, 2, 1, "1002", "1000", ts),
      Quote(999, 1001, 1, 2, "999", "1001", ts),
      Quote(1100, 1000, 1, 2, "1100", "1000", ts),
      Quote(1000, 0, 1, 1, "1000", "0", ts) }

\* the engine scanning quote tables of any publishable content
EdgeNext ==
    \/ \E m \in Venues, p \in Pairs, q \in EdgeQuoteInputs(now) : OnQuote(m, p, q)
    \/ Compute

EdgeSpec == EngineInit /\ [][EdgeNext]_vars

\* quotes published while the supervisor reconfigures
ReconfQuoteInputs(ts) ==
    { Quote(1100, 1000, 1, 2, "1100", "1000", ts) }

\* the program from construction on, with REFRESH_UNIVERSE_ENABLED = True
Next ==
    \/ \E d \in DesiredLists : Run(d)
    \/ \E d \in DesiredLists : Refresh(d)
    \/ \E ok \in SUBSET Pairs : DiscoverVenue(ok)
    \/ AwaitMarketTask
    \/ \E m \in Venues, p \in Pairs, q \in ReconfQuoteInputs(now) : OnQuote(m, p, q)
    \/ Compute
    \/ ListStale

Spec == Init /\ [][Next]_vars

\* one session of one connector, started by App.run for the batch ConnBatch
ConnInit ==
    /\ now = T0
    /\ fcall = NoCall
    /\ ticks = 0
    /\ \E v \in ConnVenues :
          /\ conn = NewSession(v)
          /\ prices = [m \in {v} |-> [p \in ConnBatch |-> QuoteDefault]]
          /\ supported = [m \in {v} |-> ConnBatch]
          /\ sessions = [m \in {v} |-> ConnBatch]
    /\ arb_states = EmptyDict
    /\ entered = [k \in Keys |-> NoneF]
    /\ market_task = "running"
    /\ current_pairs_key = <<"BTC/USDT">>
    /\ started = TRUE
    /\ rpc = "off"
    /\ disc = NoDisc
    /\ last = [op |-> "start_markets", caller |-> "run", new_key |-> <<"BTC/USDT">>]

ConnNext ==
    \/ ConnConnect
    \/ ConnConnectFail
    \/ \E f \in Frames(conn.venue) : ConnFrame(f)
    \/ \E sent \in BOOLEAN : ConnPong(sent)
    \/ \E kind \in {"error", "closed_ok"} : ConnLost(kind)
    \/ ConnBackoffDone
    \/ ConnCancel

ConnSpec == ConnInit /\ [][ConnNext]_vars

(***************************************************************************)
(* Functions of the program studied call by call                           *)
(***************************************************************************)
\* the program at rest around one function call c
FuncInit(c) ==
    /\ fcall = c
    /\ now = T0
    /\ ticks = 0
    /\ prices = load_markets
    /\ supported = EmptyDict
    /\ arb_states = EmptyDict
    /\ entered = [k \in Keys |-> NoneF]
    /\ market_task = "none"
    /\ sessions = NoSessions
    /\ current_pairs_key = <<>>
    /\ started = FALSE
    /\ rpc = "off"
    /\ disc = NoDisc
    /\ conn = NoConn
    /\ last = [op |-> "none"]

\* the call returns (or raises): its outcome is recorded with its arguments
Return(c, result) ==
    /\ fcall' = [c EXCEPT !.done = TRUE, !.result = result]
    /\ UNCHANGED <<now, ticks, prices, supported, arb_states, entered, market_task,
                   sessions, current_pairs_key, started, rpc, disc, conn, last>>

(***************************************************************************)
(* Connector discovery (discover of src/markets/*.py)                      *)
(***************************************************************************)
\* length of the listings a venue answers with
MaxEntries == 3

\* connectors that fill ok only once the whole response has been read
WholeResponseVenues == {"gate", "bitstamp", "lbank"}

\* connectors that read a trading status in the entries of the response
StatusVenues == {"binance", "kucoin", "htx", "gate", "coinbase", "bitget", "bybit"}

\* connectors whose discover also caches the pair -> venue symbol mapping
MappingVenues == {"kucoin", "okx", "kraken", "bitfinex"}

\* an entry of a venue's listing: the canonical pair its symbol denotes, the
\* trading status it reports, and whether reading its fields raises
Entry(pair, tradable, bad) == [pair |-> pair, tradable |-> tradable, bad |-> bad]

Entries ==
    {Entry(p, t, FALSE) : p \in Pairs, t \in BOOLEAN}
        \cup {Entry("ETH/USDT", TRUE, FALSE), Entry(None, FALSE, TRUE)}

\* what the HTTP call of discover yields: a failure, or a listing
Responses ==
    {[failed |-> TRUE, entries |-> <<>>]}
        \cup {[failed |-> FALSE, entries |-> es] :
                es \in UNION {[1..n -> Entries] : n \in 0..MaxEntries}}

\* index of the first entry whose processing raises (Len + 1 if none)
FirstBad(es) ==
    IF \E i \in 1..Len(es) : es[i].bad
    THEN CHOOSE i \in 1..Len(es) : es[i].bad /\ \A j \in 1..(i - 1) : ~es[j].bad
    ELSE Len(es) + 1

\* the status test of the connector on an entry
Tradable(v, e) == v \in StatusVenues => e.tradable

\* gate: avail maps the id to the status of its last entry
LastEntry(es, p) ==
    LET I == {i \in 1..Len(es) : es[i].pair = p} IN
    es[CHOOSE i \in I : \A j \in I : j <= i]

\* the ok set of a discover that adds every listed pair, desired or not
discover_all_listed(v, desired, resp) ==
    IF resp.failed THEN {}
    ELSE LET es == resp.entries
             n == FirstBad(es)
         IN  IF v \in WholeResponseVenues
             THEN IF n <= Len(es) THEN {}
                  ELSE {p \in SeqToSet(desired) :
                          /\ \E i \in 1..Len(es) : es[i].pair = p
                          /\ IF v = "gate" THEN LastEntry(es, p).tradable
                             ELSE TRUE}
             ELSE {es[i].pair : i \in {j \in 1..(n - 1) : Tradable(v, es[j])}}

\* discover(desired_pairs): the set ok it returns. The try block covers the
\* HTTP call and the loop over the entries; except Exception logs, and the
\* function returns the ok built so far.
discover(v, desired, resp) ==
    IF resp.failed THEN {}
    ELSE LET es == resp.entries
             n == FirstBad(es)
         IN  IF v \in WholeResponseVenues
             THEN IF n <= Len(es) THEN {}
                  ELSE {p \in SeqToSet(desired) :
                          /\ \E i \in 1..Len(es) : es[i].pair = p
                          /\ IF v = "gate" THEN LastEntry(es, p).tradable
                             ELSE TRUE}
             ELSE {es[i].pair : i \in {j \in 1..(n - 1) :
                          es[j].pair \in SeqToSet(desired) /\ Tradable(v, es[j])}}

\* outcome of a discover call: ok, the cached mapping, nothing raised
DiscoverResult(v, desired, resp) ==
    LET ok == discover(v, desired, resp) IN
    [ok |-> ok,
     mapping |-> IF v \in MappingVenues THEN ok ELSE {},
     raised |-> FALSE]

NoDiscoverResult == [ok |-> {}, mapping |-> {}, raised |-> FALSE]

DiscoverCalls ==
    {[fn |-> "discover", venue |-> v, desired |-> d, resp |-> r,
      done |-> FALSE, result |-> NoDiscoverResult] :
        v \in ConnVenues, d \in DesiredLists, r \in Responses}

\* mkt.discover(desired_pairs) runs to its return
DiscoverCall ==
    /\ fcall.fn = "discover"
    /\ ~fcall.done
    /\ Return(fcall, DiscoverResult(fcall.venue, fcall.desired, fcall.resp))

DiscInit == \E c \in DiscoverCalls : FuncInit(c)

DiscNext == DiscoverCall

\* one discover call of one connector
DiscSpec == DiscInit /\ [][DiscNext]_vars

(***************************************************************************)
(* Batching of the subscriptions (chunked and run of src/markets/*.py)     *)
(***************************************************************************)
\* SUB_BATCH of the connector, scaled down (bybit 10, the others 35 to 75)
SUB_BATCH(v) == IF v = "bybit" THEN 2 ELSE 3

\* the pairs a venue may support
RunPairs == {"ADA/USDT", "BTC/USDT", "ETH/USDT", "SOL/USDT", "XRP/USDT"}

\* the lists run may be handed: the supported pairs of the venue, in any order
RunLists == UNION {Orders(S) : S \in SUBSET RunPairs}

\* insertion of x into a sorted list
RECURSIVE InsertSorted(_, _)
InsertSorted(s, x) ==
    IF s = <<>> THEN <<x>>
    ELSE IF StrLess(x, Head(s)) THEN <<x>> \o s
    ELSE <<Head(s)>> \o InsertSorted(Tail(s), x)

\* sorted(pairs) for a list of strings
RECURSIVE sorted(_)
sorted(seq) ==
    IF seq = <<>> THEN <<>> ELSE InsertSorted(sorted(Tail(seq)), Head(seq))

\* seq[i:j] of Python (0-based, j exclusive, clipped to the list)
Slice(seq, i, j) == SubSeq(seq, i + 1, IF j <= Len(seq) THEN j ELSE Len(seq))

\* range(0, len, n)
RangeStep(len, n) == [k \in 1..((len + n - 1) \div n) |-> (k - 1) * n]

\* a chunked whose slices run one element into the next chunk
chunked_overlap(seq, n) ==
    LET starts == RangeStep(Len(seq), n) IN
    [k \in 1..Len(starts) |-> Slice(seq, starts[k], starts[k] + n + 1)]

\* chunked(seq, n): [seq[i:i+n] for i in range(0, len(seq), n)]
chunked(seq, n) ==
    LET starts == RangeStep(Len(seq), n) IN
    [k \in 1..Len(starts) |-> Slice(seq, starts[k], starts[k] + n)]

\* run(pairs): the batches whose _consume sessions asyncio.gather starts
\* (none when pairs is empty)
run(v, pairs) ==
    IF pairs = <<>> THEN <<>> ELSE chunked(sorted(pairs), SUB_BATCH(v))

RunCalls ==
    {[fn |-> "run", venue |-> v, pairs |-> l, done |-> FALSE, result |-> <<>>] :
        v \in ConnVenues, l \in RunLists}

\* mkt.run(pairs) reaches its await of asyncio.gather
RunCall ==
    /\ fcall.fn = "run"
    /\ ~fcall.done
    /\ Return(fcall, run(fcall.venue, fcall.pairs))

BatchInit == \E c \in RunCalls : FuncInit(c)

BatchNext == RunCall

\* one run call of one connector
BatchSpec == BatchInit /\ [][BatchNext]_vars

(***************************************************************************)
(* Formatter (_pretty_number of src/main.py)                               *)
(* Strings are sequences of characters, decimals are a sign, a sequence of *)
(* coefficient digits and an exponent, as decimal.Decimal holds them.      *)
(***************************************************************************)
MAX_DECIMALS == 12

DigitChars == {"0", "1", "2", "3", "4", "5", "6", "7", "8", "9"}

DigitVal(c) ==
    CASE c = "0" -> 0 [] c = "1" -> 1 [] c = "2" -> 2 [] c = "3" -> 3 [] c = "4" -> 4
      [] c = "5" -> 5 [] c = "6" -> 6 [] c = "7" -> 7 [] c = "8" -> 8 [] c = "9" -> 9

\* n copies of the character c
Rep(c, n) == [i \in 1..n |-> c]

\* str.lower on the letters the model uses
LowerChar(c) ==
    CASE c = "N" -> "n" [] c = "A" -> "a" [] c = "I" -> "i" [] c = "F" -> "f"
      [] c = "E" -> "e" [] c = "T" -> "t" [] c = "Y" -> "y" [] c = "S" -> "s"
      [] OTHER -> c

Lower(s) == [i \in 1..Len(s) |-> LowerChar(s[i])]

IsDigits(s) == \A i \in 1..Len(s) : s[i] \in DigitChars

\* index of the first character of s that is in C, 0 if there is none
Find(s, C) ==
    IF \E i \in 1..Len(s) : s[i] \in C
    THEN CHOOSE i \in 1..Len(s) : s[i] \in C /\ \A j \in 1..(i - 1) : s[j] \notin C
    ELSE 0

\* the digits without leading zeros ("0" for zero)
RECURSIVE StripLeadingZeros(_)
StripLeadingZeros(ds) ==
    IF Len(ds) <= 1 THEN (IF ds = <<>> THEN <<"0">> ELSE ds)
    ELSE IF Head(ds) = "0" THEN StripLeadingZeros(Tail(ds)) ELSE ds

\* int() of a sequence of digits
RECURSIVE DigitsVal(_)
DigitsVal(ds) ==
    IF ds = <<>> THEN 0 ELSE DigitsVal(SubSeq(ds, 1, Len(ds) - 1)) * 10 + DigitVal(ds[Len(ds)])

Dec(kind, neg, digits, exp) == [kind |-> kind, neg |-> neg, digits |-> digits, exp |-> exp]

\* Decimal(...) raised InvalidOperation
NoDec == Dec("invalid", FALSE, <<>>, 0)

\* the exponent part of a numeric string: [-+]?\d+ (NoExp if malformed)
NoExp == 1000000

ParseExp(s) ==
    LET signed == s # <<>> /\ s[1] \in {"+", "-"}
        ds == IF signed THEN Tail(s) ELSE s
    IN  IF ds = <<>> \/ ~IsDigits(ds) THEN NoExp
        ELSE IF signed /\ s[1] = "-" THEN 0 - DigitsVal(ds) ELSE DigitsVal(ds)

\* the numeric form: \d* (\. \d*)? (E [-+]?\d+)? with a digit in the mantissa
ParseNumber(neg, s) ==
    LET e == Find(Lower(s), {"e"})
        mant == IF e = 0 THEN s ELSE SubSeq(s, 1, e - 1)
        exp == IF e = 0 THEN 0 ELSE ParseExp(SubSeq(s, e + 1, Len(s)))
        dot == Find(mant, {"."})
        int == IF dot = 0 THEN mant ELSE SubSeq(mant, 1, dot - 1)
        frac == IF dot = 0 THEN <<>> ELSE SubSeq(mant, dot + 1, Len(mant))
    IN  IF \/ exp = NoExp
           \/ ~IsDigits(int) \/ ~IsDigits(frac)
           \/ (int = <<>> /\ frac = <<>>)
        THEN NoDec
        ELSE Dec("finite", neg, StripLeadingZeros(int \o frac), exp - Len(frac))

\* Decimal(value_str): sign, then a number, Inf, Infinity, NaN or sNaN
ParseDecimal(s) ==
    LET signed == s # <<>> /\ s[1] \in {"+", "-"}
        neg == signed /\ s[1] = "-"
        body == IF signed THEN Tail(s) ELSE s
        low == Lower(body)
    IN  IF low \in {<<"i", "n", "f">>, <<"i", "n", "f", "i", "n", "i", "t", "y">>}
        THEN Dec("inf", neg, <<"0">>, 0)
        ELSE IF low \in {<<"n", "a", "n">>, <<"s", "n", "a", "n">>}
        THEN Dec("nan", neg, <<>>, 0)
        ELSE ParseNumber(neg, body)

IsZero(d) == \A i \in 1..Len(d.digits) : d.digits[i] = "0"

\* d.quantize(Decimal('1e-' + str(max_dec)), rounding=ROUND_DOWN) under
\* getcontext().prec = max_dec + 8: InvalidOperation (NoDec) when the result
\* would hold more than prec digits
Quantize(d, max_dec) ==
    LET prec == max_dec + 8
        adjusted == Len(d.digits) + d.exp - 1
        shift == d.exp + max_dec
    IN  IF IsZero(d) THEN Dec("finite", d.neg, <<"0">>, 0 - max_dec)
        ELSE IF adjusted + max_dec + 1 > prec THEN NoDec
        ELSE IF shift >= 0
        THEN Dec("finite", d.neg, d.digits \o Rep("0", shift), 0 - max_dec)
        ELSE IF 0 - shift >= Len(d.digits)
        THEN Dec("finite", d.neg, <<"0">>, 0 - max_dec)
        ELSE Dec("finite", d.neg, SubSeq(d.digits, 1, Len(d.digits) + shift), 0 - max_dec)

\* format(q, 'f') of a decimal whose exponent is <= 0
FormatF(q) ==
    LET places == 0 - q.exp
        ds == IF Len(q.digits) > places THEN q.digits
              ELSE Rep("0", places + 1 - Len(q.digits)) \o q.digits
        int == SubSeq(ds, 1, Len(ds) - places)
        frac == SubSeq(ds, Len(ds) - places + 1, Len(ds))
    IN  (IF q.neg THEN <<"-">> ELSE <<>>) \o int
           \o (IF places > 0 THEN <<".">> \o frac ELSE <<>>)

\* s.rstrip(c)
RECURSIVE RStrip(_, _)
RStrip(s, c) ==
    IF s # <<>> /\ s[Len(s)] = c THEN RStrip(SubSeq(s, 1, Len(s) - 1), c) ELSE s

\* the tail of _pretty_number: trailing zeros and point dropped, "-0" -> "0"
Tidy(s) ==
    LET t == IF Find(s, {"."}) # 0 THEN RStrip(RStrip(s, "0"), ".") ELSE s
    IN  IF t = <<"-", "0">> THEN <<"0">> ELSE t

NoneStr == <<"N", "o", "n", "e">>

\* value_str or value_float is None
Absent == <<"absent">>

\* a float argument: its repr (what str(value_float) gives) and math.isfinite
Float(repr, finite) == [repr |-> repr, finite |-> finite]

NoFloat == Float(Absent, FALSE)

\* _pretty_number(value_str, value_float, max_dec)
pretty_number(value_str, value_float, max_dec) ==
    LET d1 == IF value_str = Absent THEN NoDec ELSE ParseDecimal(value_str)
        fallback == d1.kind = "invalid" /\ value_float # NoFloat
    IN  IF fallback /\ ~value_float.finite THEN NoneStr
        ELSE LET d == IF fallback THEN ParseDecimal(value_float.repr) ELSE d1
                 q == IF d.kind = "finite" THEN Quantize(d, max_dec) ELSE NoDec
             IN  IF d.kind # "finite" THEN NoneStr
                 ELSE IF q.kind # "finite" THEN NoneStr
                 ELSE Tidy(FormatF(q))

\* fmt_full(x_str, x_float)
fmt_full(x_str, x_float) == pretty_number(x_str, x_float, MAX_DECIMALS)

\* the decimal digits of a natural number
RECURSIVE DigitsOf(_)
DigitsOf(n) ==
    LET c == CHOOSE x \in DigitChars : DigitVal(x) = n % 10 IN
    IF n < 10 THEN <<c>> ELSE DigitsOf(n \div 10) \o <<c>>

FmtSigns == {<<>>, <<"-">>}

\* integer parts of 1, 2, 8 and 9 digits
FmtInts ==
    {<<"0">>, <<"1">>, <<"1", "0">>, DigitsOf(12345678), DigitsOf(123456789),
     DigitsOf(100000000)}

\* fractional parts (with their point) of 0 to 16 digits
FmtFracs ==
    {<<>>, <<".">>, <<".", "5">>, <<".", "5", "0">>, <<".", "0", "0", "0">>,
     <<".">> \o DigitsOf(123456) \o DigitsOf(789012),
     <<".", "1", "2">> \o Rep("0", 10),
     <<".">> \o Rep("0", 11) \o <<"1">>,
     <<".">> \o DigitsOf(123456) \o DigitsOf(7890129),
     <<".">> \o Rep("9", 13),
     <<".">> \o Rep("0", 12) \o <<"1">>,
     <<".">> \o DigitsOf(12345678) \o DigitsOf(90123456)}

\* plain decimal strings: sign, integer digits, fractional digits
PlainStrings == {sg \o i \o fr : sg \in FmtSigns, i \in FmtInts, fr \in FmtFracs}

\* other strings a Quote may carry, and the absent string
OtherStrings ==
    {Absent, <<>>, <<"a", "b", "c">>, <<"N", "a", "N">>, <<"n", "a", "n">>,
     <<"I", "n", "f", "i", "n", "i", "t", "y">>, <<"-", "I", "n", "f", "i", "n", "i", "t", "y">>,
     <<"i", "n", "f">>, <<"1", "e", "2">>, <<"1", "E", "-", "2", "0">>,
     <<"+", "1", ".", "5">>, <<".", "5">>, <<"0", "1", ".", "5">>}

\* float arguments: absent, nan, inf, and finite floats with their repr
FmtFloats ==
    {NoFloat, Float(<<"n", "a", "n">>, FALSE), Float(<<"i", "n", "f">>, FALSE),
     Float(<<"1", ".", "5">>, TRUE), Float(<<"0", ".", "3">>, TRUE),
     Float(<<"-", "0", ".", "0">>, TRUE),
     Float(<<"1", "e", "+", "2", "2">>, TRUE), Float(<<"1", "e", "-", "0", "7">>, TRUE),
     Float(DigitsOf(123456789) \o <<".", "0">>, TRUE)}

FmtCalls ==
    {[fn |-> "fmt_full", s |-> s, f |-> f, done |-> FALSE, result |-> <<>>] :
        s \in PlainStrings \cup OtherStrings, f \in FmtFloats}

\* fmt_full(x_str, x_float) runs to its return
FmtCall ==
    /\ fcall.fn = "fmt_full"
    /\ ~fcall.done
    /\ Return(fcall, fmt_full(fcall.s, fcall.f))

FmtInit == \E c \in FmtCalls : FuncInit(c)

FmtNext == FmtCall

\* one call of the formatter
FmtSpec == FmtInit /\ [][FmtNext]_vars

(***************************************************************************)
(* Successive scans: the ui loop calls compute_arbitrages again and again  *)
(* while time passes between the calls                                     *)
(***************************************************************************)
\* time passes between two operations (ui_loop sleeps between its frames)
Elapse ==
    /\ ticks < MaxTicks
    /\ ticks' = ticks + 1
    /\ now' = now + TickStep(TickSteps, ticks + 1)
    /\ UNCHANGED <<fcall, conn, prices, supported, arb_states, entered, market_task, sessions,
                   current_pairs_key, started, rpc, disc, last>>

\* the engine rescanning: last keeps the latest operation while time passes
RescanNext ==
    \/ \E m \in Venues, p \in Pairs, q \in QuoteInputs(now) : OnQuote(m, p, q)
    \/ Compute
    \/ Elapse

RescanSpec == EngineInit /\ [][RescanNext]_vars

(***************************************************************************)
(* Scans across a cap excursion: fcall follows the compute_arbitrages      *)
(* calls and keeps the keys the cap has discarded since they entered       *)
(***************************************************************************)
\* quotes that enter a window, exceed MAX_PROFIT_PCT, and leave the window
CapQuoteInputs(ts) ==
    { Quote(1100, 1000, 1, 2, "1100", "1000", ts),
      Quote(1101, 1000, 1, 2, "1101", "1000", ts),
      Quote(1002, 1000, 2, 1, "1002", "1000", ts) }

\* the keys in-window after this call that this call, or an earlier one
\* since they entered, discarded by the cap
Excursions ==
    {k \in Keys :
        /\ k \in DOMAIN arb_states' /\ arb_states'[k].in_window
        /\ \/ k \in last'.capped
           \/ fcall.fn = "compute_arbitrages" /\ k \in fcall.excursions}

\* ui_loop calls compute_arbitrages
CapCompute ==
    /\ ComputeCall
    /\ fcall' = [fn |-> "compute_arbitrages", excursions |-> Excursions]

CapNext ==
    \/ \E m \in Venues, p \in Pairs, q \in CapQuoteInputs(now) : OnQuote(m, p, q)
    \/ CapCompute
    \/ Tick

CapSpec == EngineInit /\ [][CapNext]_vars

(***************************************************************************)
(* Properties                                                              *)
(***************************************************************************)
InWindow(k) == k \in DOMAIN arb_states /\ arb_states[k].in_window

\* the update_hysteresis calls the compute_arbitrages call of this step made for key k
CallsFor(k) == IF last'.op = "compute"
               THEN {last'.calls[i] : i \in {j \in 1..Len(last'.calls) : last'.calls[j].key = k}}
               ELSE {}

\* C1: a key that is not in-window and is observed with profit_frac >=
\* THRESH_ENTER becomes in-window with since_ms equal to the time of that
\* observation; an in-window key stays in-window with the same since_ms over
\* every step other than an observation with profit_frac < THRESH_EXIT.
C1_EnterAndHold ==
    [][\A k \in Keys :
        /\ (~InWindow(k) /\ \E c \in CallsFor(k) : RGe(c.profit_frac, THRESH_ENTER))
              => /\ InWindow(k)'
                 /\ arb_states'[k].since_ms = now
                 /\ \A c \in CallsFor(k) : c.nowms = now
        /\ (InWindow(k) /\ ~\E c \in CallsFor(k) : RLt(c.profit_frac, THRESH_EXIT))
              => /\ InWindow(k)'
                 /\ arb_states'[k].since_ms = arb_states[k].since_ms
      ]_vars

\* C1 witness: a key entered earlier is still in-window, with its since_ms,
\* after an observation with profit in [THRESH_EXIT, THRESH_ENTER)
C1_Witness ==
    /\ last.op = "compute"
    /\ \E i \in 1..Len(last.calls) :
          /\ RGe(last.calls[i].profit_frac, THRESH_EXIT)
          /\ RLt(last.calls[i].profit_frac, THRESH_ENTER)
          /\ InWindow(last.calls[i].key)
          /\ arb_states[last.calls[i].key].since_ms < last.nms

\* C2: a key that is not in-window stays not in-window, with since_ms
\* absent, over every step other than an observation with profit_frac >=
\* THRESH_ENTER, and a compute_arbitrages call in such a step emits no
\* opportunity for it.
C2_NoEntryBelowEnter ==
    [][\A k \in Keys :
        (~InWindow(k) /\ ~\E c \in CallsFor(k) : RGe(c.profit_frac, THRESH_ENTER))
           => /\ ~InWindow(k)'
              /\ k \in DOMAIN arb_states' => arb_states'[k].since_ms = NoneF
              /\ last'.op = "compute" =>
                    \A i \in 1..Len(last'.ops) :
                       <<last'.ops[i].pair, last'.ops[i].buy_mkt, last'.ops[i].sell_mkt>> # k
      ]_vars

\* C2 witness: a key was observed with profit in [THRESH_EXIT, THRESH_ENTER)
\* and is not in-window
C2_Witness ==
    /\ last.op = "compute"
    /\ \E i \in 1..Len(last.calls) :
          /\ RGe(last.calls[i].profit_frac, THRESH_EXIT)
          /\ RLt(last.calls[i].profit_frac, THRESH_ENTER)
          /\ ~last.calls[i].ret
          /\ ~InWindow(last.calls[i].key)

\* C3: is_long(key, now) holds only if the key is in-window and at least
\* LONG_SECS * 1000 ms have passed since its latest false->true transition;
\* the long flag of every emitted opportunity obeys the same bound.
C3_LongClassification ==
    /\ \A k \in Keys :
          is_long(arb_states, k, now)
             => InWindow(k) /\ entered[k] # NoneF /\ now - entered[k] >= LONG_SECS * 1000
    /\ last.op = "compute" =>
          \A i \in 1..Len(last.ops) :
             LET k == <<last.ops[i].pair, last.ops[i].buy_mkt, last.ops[i].sell_mkt>>
             IN  last.ops[i].long
                    => entered[k] # NoneF /\ last.nms - entered[k] >= LONG_SECS * 1000

\* C3 witness: an opportunity whose window opened after T0 is emitted as long
C3_Witness ==
    /\ last.op = "compute"
    /\ \E i \in 1..Len(last.ops) :
          /\ last.ops[i].long
          /\ entered[<<last.ops[i].pair, last.ops[i].buy_mkt, last.ops[i].sell_mkt>>] > T0

\* C4: no opportunity returned by compute_arbitrages has
\* profit_pct > MAX_PROFIT_PCT.
C4_SanityCap ==
    last.op = "compute" =>
       \A i \in 1..Len(last.ops) :
          /\ ~RGt(last.ops[i].profit_pct, [n |-> MAX_PROFIT_PCT, d |-> 1])
          /\ (last.ops[i].sell_price - last.ops[i].buy_price) * 100
                <= MAX_PROFIT_PCT * last.ops[i].buy_price

\* C4 witness: a scan that discarded a key by the cap and emitted another
C4_Witness ==
    /\ last.op = "compute"
    /\ last.capped # {}
    /\ Len(last.ops) > 0

\* C5: a key whose profit_pct exceeds MAX_PROFIT_PCT in a scan keeps its
\* hysteresis entry exactly as it was before the call (absent stays
\* absent, in_window and since_ms unchanged).
C5_CapBeforeTransition ==
    [][last'.op = "compute" =>
          \A k \in last'.capped :
             /\ (k \in DOMAIN arb_states') = (k \in DOMAIN arb_states)
             /\ k \in DOMAIN arb_states => arb_states'[k] = arb_states[k]
      ]_vars

\* C5 witness: a scan discarded by the cap a key that is in-window
C5_Witness ==
    /\ last.op = "compute"
    /\ \E k \in last.capped : InWindow(k)

\* C6: the list returned by compute_arbitrages is non-increasing by profit_pct.
C6_Ranking ==
    last.op = "compute" =>
       \A i \in 1..(Len(last.ops) - 1) :
          RGe(last.ops[i].profit_pct, last.ops[i + 1].profit_pct)

\* C6 witness: two opportunities of different profit, the one found later
\* in the scan ranked first
C6_Witness ==
    /\ last.op = "compute"
    /\ Len(last.ops) = 2
    /\ RGt(last.ops[1].profit_pct, last.ops[2].profit_pct)
    /\ last.ops[1].buy_mkt = MARKETS_TO_USE[2]

\* C7: list_stale returns a row for a stored (venue, pair) quote if and
\* only if the quote was never updated (ts_ms = 0) or
\* now_ms - ts_ms >= STALE_SECS * 1000.
C7_StaleAccounting ==
    last.op = "list_stale" =>
       \A m \in DOMAIN prices : \A p \in DOMAIN prices[m] :
          (\E i \in 1..Len(last.rows) : last.rows[i].mkt = m /\ last.rows[i].pair = p)
             <=> (prices[m][p].ts_ms = 0 \/ now - prices[m][p].ts_ms >= STALE_SECS * 1000)

\* C7 witness: an updated quote is listed at the age STALE_SECS and a
\* younger one is not
C7_Witness ==
    /\ last.op = "list_stale"
    /\ \E i \in 1..Len(last.rows) :
          ~last.rows[i].age.inf /\ last.rows[i].age.ms = STALE_SECS * 1000
    /\ \E m \in DOMAIN prices : \E p \in DOMAIN prices[m] :
          /\ prices[m][p].ts_ms > 0
          /\ \A i \in 1..Len(last.rows) : ~(last.rows[i].mkt = m /\ last.rows[i].pair = p)

\* C8: when the refresher has handled a desired-pairs list whose key
\* differs from current_pairs_key, the sessions of the old run are gone, a
\* new market task runs a session for every venue with a non-empty
\* supported set, and current_pairs_key is the new key.
C8_ReconfigureRestarts ==
    (last.op = "refresher_cancelled" \/ (last.op = "start_markets" /\ last.caller = "refresh"))
       => /\ current_pairs_key = last.new_key
          /\ \A m \in Venues : sessions[m] = DictGet(supported, m, {})
          /\ market_task \in {"running", "done"}
          /\ (market_task = "running") = (\E m \in Venues : DictGet(supported, m, {}) # {})

\* C9: a compute_arbitrages or list_stale call made while discover of a
\* reconfiguration is suspended sees the supported map and the key set of
\* the quote table as they were before the reconfiguration began.
C9_ReconfigureAtomic ==
    (rpc = "discover" /\ disc.caller = "refresh" /\ last.op \in {"compute", "list_stale"})
       => /\ supported = disc.pre_supported
          /\ \A m \in Venues : DOMAIN prices[m] = DOMAIN disc.pre_prices[m]

\* C10: a step changes the stored record of (venue, pair) only if it is an
\* on_quote call for that (venue, pair); after the call the stored record is
\* the Quote passed, all seven fields; and the prices, strings and sizes of
\* every opportunity of a compute_arbitrages call are those of the stored records.
C10_LastWriteWins ==
    [][/\ \A m \in Venues : \A p \in DOMAIN prices[m] :
             (p \notin DOMAIN prices'[m] \/ prices'[m][p] # prices[m][p])
                => last'.op = "on_quote" /\ last'.market = m /\ last'.pair = p
       /\ last'.op = "on_quote" => prices'[last'.market][last'.pair] = last'.q
       /\ last'.op = "compute" =>
             \A i \in 1..Len(last'.ops) :
                LET o == last'.ops[i]
                    qb == prices[o.buy_mkt][o.pair]
                    qs == prices[o.sell_mkt][o.pair]
                IN  /\ o.buy_price = qb.ask /\ o.buy_price_str = qb.ask_str
                    /\ o.buy_qty = qb.ask_sz
                    /\ o.sell_price = qs.bid /\ o.sell_price_str = qs.bid_str
                    /\ o.sell_qty = qs.bid_sz
      ]_vars

\* C10 witness: a venue whose earlier quote carried a bid (it sold into an
\* open window) has published an ask-only quote, which is now the stored record
C10_Witness ==
    /\ last.op = "on_quote"
    /\ last.q.bid = NoneF
    /\ last.q.ts_ms > T0
    /\ prices[last.market][last.pair] = last.q
    /\ \E k \in Keys : k[3] = last.market /\ k[1] = last.pair /\ InWindow(k)

(***************************************************************************)
(* Properties of the connector sessions                                    *)
(***************************************************************************)
\* the last step was a frame that the session published a Quote for
Published == last.op = "frame" /\ last.out = "publish"

\* C11: every Quote a connector passes to on_quote has at least one of
\* bid, ask present.
C11_NoEmptyQuotes ==
    Published => last.q.bid # NoneF \/ last.q.ask # NoneF

\* C11 witness: a frame with an ask and no usable bid is published one-sided
C11_Witness ==
    /\ Published
    /\ last.q.bid = NoneF
    /\ last.q.ask # NoneF
    /\ last.f.bids = <<Level("abc", "1")>>

\* every level of the frame parses
WellFormed(f) ==
    \A l \in SeqToSet(f.bids \o f.asks) : ParseFloat(l.px) # NoneF /\ ParseFloat(l.sz) # NoneF

\* after the frame a side has a best level: the frame lists one (top-of-book
\* connectors), or the book of the pair holds one (snapshot+delta connectors)
HasBestAfter ==
    IF conn.venue \in TopVenues
    THEN last.f.bids # <<>> \/ last.f.asks # <<>>
    ELSE \/ conn.books[last.pair].bids # EmptyDict
         \/ conn.books[last.pair].asks # EmptyDict

\* C12: a well-formed data frame of a mapped pair that leaves a best level
\* on at least one side is published as a Quote whose ts_ms is the local
\* time of acceptance.
C12_OneSidedPublished ==
    (/\ last.op = "frame"
     /\ last.f.kind = "data"
     /\ last.pair # None
     /\ WellFormed(last.f)
     /\ HasBestAfter)
       => /\ last.out = "publish"
          /\ last.q.ts_ms = now
          /\ prices[conn.venue][last.pair] = last.q

\* C13: the bid_str and ask_str of a published Quote are the strings the
\* venue sent for those prices, character for character (bitfinex sends
\* numbers).
C13_StringsPreserved ==
    (Published /\ conn.venue # "bitfinex")
       => /\ last.q.bid # NoneF => last.q.bid_str = VenueStr(last.q.bid)
          /\ last.q.ask # NoneF => last.q.ask_str = VenueStr(last.q.ask)

\* the symbol of the frame is the venue symbol of no pair of the batch
Unmapped(v, f) == \A p \in ConnBatch : NativeSym(v, p) # f.sym

\* C14: a Quote is published only under a pair of the batch, and a data
\* frame whose symbol maps to no pair of the batch causes no on_quote call
\* and changes no order book.
C14_UnmappedRejected ==
    [][last'.op = "frame" =>
          /\ last'.out = "publish" =>
                /\ last'.pair \in ConnBatch
                /\ DOMAIN prices'[conn.venue] \subseteq ConnBatch
          /\ (last'.f.kind = "data" /\ Unmapped(conn.venue, last'.f)) =>
                /\ last'.out = "drop"
                /\ prices' = prices
                /\ conn'.books = conn.books
      ]_vars

\* C14 witness: a frame of a symbol outside the batch is dropped by a
\* session that holds a book
C14_Witness ==
    /\ last.op = "frame"
    /\ last.f.kind = "data"
    /\ Unmapped(conn.venue, last.f)
    /\ last.out = "drop"
    /\ conn.venue \in BookVenues
    /\ "BTC/USDT" \in DOMAIN conn.books
    /\ conn.books["BTC/USDT"].bids # EmptyDict

\* a size is present only with its price
SizeWithPrice(q) ==
    /\ q.bid_sz # NoneF => q.bid # NoneF
    /\ q.ask_sz # NoneF => q.ask # NoneF

\* C15: in every published Quote and every stored record, bid_sz is present
\* only if bid is, and ask_sz only if ask is.
C15_SizeImpliesPrice ==
    /\ Published => SizeWithPrice(last.q)
    /\ \A m \in DOMAIN prices : \A p \in DOMAIN prices[m] : SizeWithPrice(prices[m][p])

\* C15 witness: a bid whose price does not parse is published without its size
C15_Witness ==
    /\ Published
    /\ last.f.bids = <<Level("abc", "1")>>
    /\ last.q.bid = NoneF
    /\ last.q.bid_sz = NoneF
    /\ prices[conn.venue][last.pair] = last.q

\* the prices of the levels one side of a book holds
HeldPrices(v, levels) ==
    IF v \in StrBookVenues THEN {ParseFloat(k) : k \in DOMAIN levels} ELSE DOMAIN levels

\* the entries (price, 0) of a list that no later entry of the list re-inserts
Removals(list) ==
    {ParseFloat(list[i].px) : i \in {j \in 1..Len(list) :
        /\ ParseFloat(list[j].px) # NoneF
        /\ ParseFloat(list[j].sz) = 0
        /\ \A k \in (j + 1)..Len(list) : list[k].px # list[j].px}}

\* the best price of a side: the highest bid, the lowest ask, NoneF if none
BestOf(S, side) ==
    IF S = {} THEN NoneF ELSE IF side = "buy" THEN SetMax(S) ELSE SetMin(S)

\* C16: in the snapshot+delta connectors an update (side, price, 0) leaves
\* no level at that price in that side's map, and the best bid and ask
\* published are the maximum and the minimum of the prices the maps hold,
\* so a removed price is not returned until an update re-inserts it.
C16_ZeroSizeRemoves ==
    [][(/\ last'.op = "frame"
        /\ conn.venue \in BookVenues
        /\ last'.f.kind = "data"
        /\ last'.pair # None
        /\ last'.out # "raise")
          => LET book == conn'.books[last'.pair]
                 bids == HeldPrices(conn.venue, book.bids)
                 asks == HeldPrices(conn.venue, book.asks)
                 applied == ~BookFrameSkipped(conn.venue, last'.f)
             IN  /\ applied => Removals(last'.f.bids) \cap bids = {}
                 /\ applied => Removals(last'.f.asks) \cap asks = {}
                 /\ last'.out = "publish" =>
                       /\ last'.q.bid = BestOf(bids, "buy")
                       /\ last'.q.ask = BestOf(asks, "sell")
                 /\ last'.out = "drop" /\ applied => bids = {} /\ asks = {}
      ]_vars

\* C16 witness: the best bid 99 is removed by a delta (99, 0) and the
\* Quote published falls back to the bid 98 that remains
C16_Witness ==
    /\ Published
    /\ last.f.typ = "delta"
    /\ last.f.bids = <<Level("99", "0")>>
    /\ HeldPrices(conn.venue, last.before.bids) = {98, 99}
    /\ last.q.bid = 98
    /\ HeldPrices(conn.venue, conn.books[last.pair].bids) = {98}

\* the prices of the levels of non-zero size a snapshot lists for a side
SnapshotPrices(list) ==
    {ParseFloat(l.px) : l \in {x \in SeqToSet(list) :
        ParseFloat(x.px) # NoneF /\ ParseFloat(x.sz) # NoneF /\ ParseFloat(x.sz) # 0}}

C18_ReconnectBackoff ==
    /\ (\/ last.op = "conn_lost"
        \/ last.op = "connect_fail"
        \/ (last.op = "frame" /\ last.out = "raise")
        \/ (last.op = "pong" /\ ~last.sent /\ conn.venue \notin PongSwallowVenues))
          => conn.pos = "backoff"
    /\ conn.pos = "terminated" => conn.cancelled

\* the frame cannot be decoded into the expected shape
Undecodable(f) ==
    \/ f.kind \in {"garbage", "nonobject"}
    \/ f.kind = "data" /\ ~WellFormed(f)

\* C19: a frame that cannot be decoded is skipped: same connection, nothing
\* published, order books unchanged.
C19_UndecodableDropped ==
    [][(last'.op = "frame" /\ Undecodable(last'.f))
          => /\ conn'.pos = "receiving"
             /\ last'.out = "drop"
             /\ prices' = prices
             /\ conn'.books = conn.books
      ]_vars

\* C20: once the supervisor has cancelled the market task the session has
\* terminated, at whatever point it was suspended, and publishes no quote.
C20_Cancellable ==
    conn.cancelled => conn.pos = "terminated" /\ ~Published

\* the discover call has returned
Discovered == fcall.fn = "discover" /\ fcall.done

\* the HTTP call failed or the processing of an entry of the response raised
DiscoveryFailed ==
    \/ fcall.resp.failed
    \/ \E i \in 1..Len(fcall.resp.entries) : fcall.resp.entries[i].bad

\* C21: when the HTTP call of a connector's discover fails, or processing
\* its response fails at any point, discover returns the empty set, never a
\* partly filled one, and raises nothing.
C21_DiscoveryFailureEmpty ==
    (Discovered /\ DiscoveryFailed)
       => /\ fcall.result.ok = {}
          /\ ~fcall.result.raised

Carriers(batches, p) ==
    {i \in 1..Len(batches) : \E j \in 1..Len(batches[i]) : batches[i][j] = p}

\* C23: run(pairs) with a non-empty list starts ceil(n / SUB_BATCH) sessions
\* over the sorted pairs, each with at most SUB_BATCH pairs, and every pair
\* is carried by exactly one session.
C23_BatchingPartitions ==
    (fcall.fn = "run" /\ fcall.done /\ fcall.pairs # <<>>)
       => LET b == fcall.result
              n == Len(fcall.pairs)
              sub == SUB_BATCH(fcall.venue)
              all == Flatten(b)
          IN  /\ Len(b) * sub >= n
              /\ (Len(b) - 1) * sub < n
              /\ \A i \in 1..Len(b) : Len(b[i]) >= 1 /\ Len(b[i]) <= sub
              /\ Len(all) = n
              /\ \A i \in 1..(Len(all) - 1) : StrLess(all[i], all[i + 1])
              /\ \A p \in SeqToSet(fcall.pairs) : Cardinality(Carriers(b, p)) = 1

\* C23 witness: five pairs handed unsorted to bybit are carried by three
\* sessions of 2, 2 and 1 pairs
C23_Witness ==
    /\ fcall.fn = "run"
    /\ fcall.done
    /\ fcall.venue = "bybit"
    /\ fcall.pairs = <<"XRP/USDT", "BTC/USDT", "SOL/USDT", "ADA/USDT", "ETH/USDT">>
    /\ fcall.result = << <<"ADA/USDT", "BTC/USDT">>, <<"ETH/USDT", "SOL/USDT">>, <<"XRP/USDT">> >>

\* C24: a record of the quote table, once it exists for (venue, pair),
\* exists in every later state of the table, and no step of the supervisor
\* or the engine (rediscovery included) takes its ts_ms back.
C24_QuotesNeverCollected ==
    [][\A m \in DOMAIN prices : \A p \in DOMAIN prices[m] :
          /\ m \in DOMAIN prices'
          /\ p \in DOMAIN prices'[m]
          /\ prices'[m][p].ts_ms >= prices[m][p].ts_ms
      ]_vars

\* C25: compute_arbitrages returns its list without raising, whatever the
\* connectors have published: crossed books, a best ask of 0 on the buy venue.
C25_EngineNeverAborts ==
    last.op = "compute" => ~last.raised

\* the formatter call has returned
Formatted == fcall.fn = "fmt_full" /\ fcall.done

\* number of fractional digits of a plain decimal string
FracDigits(s) == IF Find(s, {"."}) = 0 THEN 0 ELSE Len(s) - Find(s, {"."})

\* canonicalize: trailing zeros after a decimal point removed, a trailing
\* point removed, "-0" normalized to "0"
canonicalize(s) ==
    LET t == IF Find(s, {"."}) = 0 THEN s ELSE RStrip(RStrip(s, "0"), ".")
    IN  IF t = <<"-", "0">> THEN <<"0">> ELSE t

\* the value of a finite decimal: coefficient without trailing zeros, zero unsigned
RECURSIVE Normal(_)
Normal(d) ==
    IF IsZero(d) THEN Dec("finite", FALSE, <<"0">>, 0)
    ELSE IF d.digits[Len(d.digits)] = "0"
    THEN Normal([d EXCEPT !.digits = SubSeq(@, 1, Len(@) - 1), !.exp = @ + 1])
    ELSE d

SameValue(a, b) == a.kind = "finite" /\ b.kind = "finite" /\ Normal(a) = Normal(b)

\* C26: for a decimal string s with at most MAX_DECIMALS fractional digits
\* and any number of integer digits, format(s, *) is canonicalize(s) and
\* parses back to the value of s.
C26_FormatterExact ==
    (Formatted /\ fcall.s \in PlainStrings /\ FracDigits(fcall.s) <= MAX_DECIMALS)
       => /\ fcall.result = canonicalize(fcall.s)
          /\ SameValue(ParseDecimal(fcall.result), ParseDecimal(fcall.s))

\* s parses as a finite decimal
FiniteString(s) == s # Absent /\ ParseDecimal(s).kind = "finite"

\* the value of d cut to max_dec fractional digits, toward zero
TruncateValue(d, max_dec) ==
    IF d.exp + max_dec >= 0 THEN d
    ELSE IF 0 - (d.exp + max_dec) >= Len(d.digits) THEN Dec("finite", d.neg, <<"0">>, 0)
    ELSE Dec("finite", d.neg, SubSeq(d.digits, 1, Len(d.digits) + d.exp + max_dec),
             0 - max_dec)

\* the text format renders
Renders(result, text) ==
    /\ result # NoneStr
    /\ SameValue(ParseDecimal(result), TruncateValue(ParseDecimal(text), MAX_DECIMALS))

\* C27: format(s, f) renders s when s parses as a finite decimal; when s is
\* absent or is no finite decimal ("NaN", "Infinity" included) it renders f
\* if f is finite; it returns "None" only when neither yields a finite decimal.
C27_FormatterPreference ==
    Formatted
       => IF FiniteString(fcall.s) THEN Renders(fcall.result, fcall.s)
          ELSE IF fcall.f # NoFloat /\ fcall.f.finite THEN Renders(fcall.result, fcall.f.repr)
          ELSE fcall.result = NoneStr

\* C28: for a decimal string with more than MAX_DECIMALS fractional digits
\* format keeps the first MAX_DECIMALS of them and drops the rest, for both
\* signs, in plain notation, and renders a negative zero as "0".
C28_FormatterTruncates ==
    (Formatted /\ fcall.s \in PlainStrings /\ FracDigits(fcall.s) > MAX_DECIMALS)
       => fcall.result =
             canonicalize(SubSeq(fcall.s, 1, Find(fcall.s, {"."}) + MAX_DECIMALS))

\* C29: when the refresher obtains a desired list with the same set of
\* pairs as the current one, in any order, with or without duplicates, it
\* neither re-runs discover nor cancels or restarts a session, and
\* supported, the quote table and current_pairs_key stay as they are.
C29_UnchangedSetNoOp ==
    /\ [][(last'.op = "refresh" /\ SeqToSet(last'.pairs) = SeqToSet(current_pairs_key))
             => /\ rpc' = "idle"
                /\ UNCHANGED <<supported, prices, current_pairs_key, sessions, market_task,
                               disc>>
         ]_vars
    /\ [](pairs_key(<<"BTC/USDT", "ADA/USDT", "BTC/USDT">>) = pairs_key(<<"ADA/USDT", "BTC/USDT">>))

\* C29 witness: sessions run for the key (ADA/USDT, BTC/USDT) and the
\* refresher has just handled the list (BTC/USDT, ADA/USDT) without a restart
C29_Witness ==
    /\ last.op = "refresh"
    /\ ~last.changed
    /\ last.pairs = <<"BTC/USDT", "ADA/USDT">>
    /\ current_pairs_key = <<"ADA/USDT", "BTC/USDT">>
    /\ market_task = "running"
    /\ rpc = "idle"

\* the prices of the levels a list of a frame names
FramePrices(list) == {ParseFloat(list[i].px) : i \in 1..Len(list)}

\* C30: at the start of every new websocket connection of a snapshot+delta
\* session the book of every pair is empty, and a Quote published from a
\* delta that is the first frame of the connection holds no level received
\* on an earlier connection.
C30_BookLostOnReconnect ==
    /\ []((conn.venue \in BookVenues /\ last.op = "connect")
             => \A p \in DOMAIN conn.books : conn.books[p] = EmptyBook)
    /\ [][(/\ conn.venue \in BookVenues
           /\ last.op = "connect"
           /\ last'.op = "frame"
           /\ last'.out = "publish"
           /\ last'.f.typ = "delta")
             => /\ last'.q.bid \in FramePrices(last'.f.bids) \cup {NoneF}
                /\ last'.q.ask \in FramePrices(last'.f.asks) \cup {NoneF}
         ]_vars

(***************************************************************************)
(* Properties of the engine: what a scan observes                          *)
(***************************************************************************)
\* the stored quote of (venue, pair), or Quote() where there is none
Stored(m, pair) == DictGet(DictGet(prices, m, EmptyDict), pair, QuoteDefault)

\* the scan of the current quote table evaluates key k: both venues hold a
\* quote with bid and ask, the sizes consumed are present, and profit_pct
\* is at most MAX_PROFIT_PCT
Observed(k) ==
    LET qb == Stored(k[2], k[1])
        qs == Stored(k[3], k[1])
    IN  /\ qb.bid # NoneF /\ qb.ask # NoneF
        /\ qs.bid # NoneF /\ qs.ask # NoneF
        /\ qb.ask_sz # NoneF /\ qs.bid_sz # NoneF
        /\ (qs.bid - qb.ask) * 100 <= MAX_PROFIT_PCT * qb.ask

\* the hysteresis entry of k, or a record that says the dict has none
EntryOf(states, k) == DictGet(states, k, [absent |-> TRUE])

\* C31: the hysteresis entry of a key changes in a step only if the step is
\* a compute_arbitrages call whose scan evaluates the key; every other key
\* keeps its entry (in_window and since_ms) or stays absent.
C31_UnobservedUntouched ==
    [][\A k \in Keys :
          EntryOf(arb_states', k) # EntryOf(arb_states, k)
             => last'.op = "compute" /\ Observed(k)
      ]_vars

\* C31 witness: a scan ran over a table in which a venue of an in-window key
\* has lost a side of its quote, and the key is still in-window
C31_Witness ==
    /\ last.op = "compute"
    /\ \E k \in Keys :
          /\ InWindow(k)
          /\ ~Observed(k)
          /\ (Stored(k[3], k[1]).bid = NoneF \/ Stored(k[3], k[1]).bid_sz = NoneF)
          /\ arb_states[k].since_ms < last.nms

\* C32: for every key of arb_states, since_ms is present if and only if
\* in_window is true; over a step since_ms becomes the time of the scan on
\* false->true, becomes absent on true->false, and is unchanged otherwise.
C32_SinceIffInWindow ==
    /\ [](\A k \in DOMAIN arb_states :
             (arb_states[k].since_ms # NoneF) <=> arb_states[k].in_window)
    /\ [][\A k \in DOMAIN arb_states' :
             LET old == DictGet(arb_states, k, ArbState)
                 new == arb_states'[k]
             IN  /\ (~old.in_window /\ new.in_window) => new.since_ms = now
                 /\ (old.in_window /\ ~new.in_window) => new.since_ms = NoneF
                 /\ (old.in_window = new.in_window) => new.since_ms = old.since_ms
         ]_vars

\* C32 witness: after a scan at a later time, one key is in-window with the
\* since_ms of its entry and the opposite key, observed below THRESH_EXIT,
\* has an entry out of the window without since_ms
C32_Witness ==
    /\ last.op = "compute"
    /\ last.nms > T0
    /\ \E k \in DOMAIN arb_states :
          /\ arb_states[k].in_window
          /\ arb_states[k].since_ms = entered[k]
          /\ arb_states[k].since_ms < last.nms
    /\ \E i \in 1..Len(last.calls) :
          /\ RLt(last.calls[i].profit_frac, THRESH_EXIT)
          /\ ~arb_states[last.calls[i].key].in_window
          /\ arb_states[last.calls[i].key].since_ms = NoneF

\* the keys the scan of the last compute_arbitrages call used: those it passed
\* to update_hysteresis, those the cap discarded, those it emitted
UsedKeys ==
    {last.calls[i].key : i \in 1..Len(last.calls)}
       \cup last.capped
       \cup {<<last.ops[i].pair, last.ops[i].buy_mkt, last.ops[i].sell_mkt>> : i \in 1..Len(last.ops)}

\* C33: a venue whose stored quote of a pair lacks bid or ask is neither the
\* buy venue nor the sell venue of a key the scan uses; the buy venue of a
\* used key has ask_sz and its sell venue has bid_sz; every opportunity has
\* buy_mkt # sell_mkt and exec_qty = min(ask_sz of the buy venue, bid_sz of
\* the sell venue).
C33_HalfQuotesNotScanned ==
    last.op = "compute" =>
       /\ \A k \in UsedKeys :
             /\ k[2] # k[3]
             /\ Stored(k[2], k[1]).bid # NoneF /\ Stored(k[2], k[1]).ask # NoneF
             /\ Stored(k[3], k[1]).bid # NoneF /\ Stored(k[3], k[1]).ask # NoneF
             /\ Stored(k[2], k[1]).ask_sz # NoneF
             /\ Stored(k[3], k[1]).bid_sz # NoneF
       /\ \A i \in 1..Len(last.ops) :
             LET o == last.ops[i]
             IN  /\ o.buy_mkt # o.sell_mkt
                 /\ o.exec_qty = Min(Stored(o.buy_mkt, o.pair).ask_sz,
                                     Stored(o.sell_mkt, o.pair).bid_sz)

\* C33 witness: an opportunity was emitted with different sizes on its two
\* venues while the opposite key was left out because the venue it would
\* sell on has no bid_sz
C33_Witness ==
    /\ last.op = "compute"
    /\ \E i \in 1..Len(last.ops) :
          LET o == last.ops[i]
          IN  /\ Stored(o.buy_mkt, o.pair).ask_sz # Stored(o.sell_mkt, o.pair).bid_sz
              /\ Stored(o.buy_mkt, o.pair).bid_sz = NoneF
              /\ <<o.pair, o.sell_mkt, o.buy_mkt>> \notin UsedKeys

(***************************************************************************)
(* Properties of the quote table                                           *)
(***************************************************************************)
\* the records the quote table holds for venue m
Records(table, m) == DictGet(table, m, EmptyDict)

\* C34: a Quote published by the connector loaded under venue name V is
\* stored under prices[V][pair], and the records of every other venue are
\* left as they were.
C34_VenueTagging ==
    [][last'.op = "on_quote" =>
          /\ last'.market \in DOMAIN prices'
          /\ last'.pair \in DOMAIN prices'[last'.market]
          /\ prices'[last'.market][last'.pair] = last'.q
          /\ \A m \in Venues \ {last'.market} : Records(prices', m) = Records(prices, m)
      ]_vars

\* C34 witness: the connector loaded first has published a Quote that is now
\* its record, while the connector loaded last holds a different record
C34_Witness ==
    /\ last.op = "on_quote"
    /\ last.market = MARKETS_TO_USE[1]
    /\ prices[last.market][last.pair] = last.q
    /\ last.pair \in DOMAIN Records(prices, MARKETS_TO_USE[Len(MARKETS_TO_USE)])
    /\ prices[MARKETS_TO_USE[Len(MARKETS_TO_USE)]][last.pair].ts_ms > 0
    /\ prices[MARKETS_TO_USE[Len(MARKETS_TO_USE)]][last.pair].bid # last.q.bid

(***************************************************************************)
(* Properties of the engine: the opportunities of one scan and of          *)
(* successive scans                                                        *)
(***************************************************************************)
\* the key of an opportunity
KeyOf(o) == <<o.pair, o.buy_mkt, o.sell_mkt>>

\* profit_frac of an opportunity, from the prices it carries
FracOf(o) == [n |-> o.sell_price - o.buy_price, d |-> o.buy_price]

\* C35: every opportunity returned by compute_arbitrages has
\* THRESH_EXIT <= profit_frac and profit_pct <= MAX_PROFIT_PCT, its key is
\* in-window in arb_states after the call, and no key appears twice in the list.
C35_EmittedInsideBand ==
    last.op = "compute" =>
       /\ \A i \in 1..Len(last.ops) :
             /\ RGe(FracOf(last.ops[i]), THRESH_EXIT)
             /\ ~RGt(last.ops[i].profit_pct, [n |-> MAX_PROFIT_PCT, d |-> 1])
             /\ InWindow(KeyOf(last.ops[i]))
       /\ \A i, j \in 1..Len(last.ops) :
             KeyOf(last.ops[i]) = KeyOf(last.ops[j]) => i = j

\* C35 witness: one list holds an opportunity at exactly THRESH_EXIT and
\* another at exactly MAX_PROFIT_PCT
C35_Witness ==
    /\ last.op = "compute"
    /\ \E i, j \in 1..Len(last.ops) :
          /\ FracOf(last.ops[i]).n * THRESH_EXIT.d = THRESH_EXIT.n * FracOf(last.ops[i]).d
          /\ last.ops[j].profit_pct.n = MAX_PROFIT_PCT * last.ops[j].profit_pct.d

\* the keys of a list of opportunities
KeysOf(ops) == {KeyOf(ops[i]) : i \in 1..Len(ops)}

\* what an opportunity carries besides its ages and its long flag
Core(o) == [pair |-> o.pair, buy_mkt |-> o.buy_mkt, sell_mkt |-> o.sell_mkt,
            buy_price |-> o.buy_price, sell_price |-> o.sell_price,
            profit_pct |-> o.profit_pct, exec_qty |-> o.exec_qty]

\* C36: when compute_arbitrages is called twice with no on_quote in between,
\* whatever time passes, the second call returns the same set of keys, with
\* the same prices, profit and quantity, and leaves arb_states as the first
\* call left it.
C36_ScanIdempotent ==
    [][(last.op = "compute" /\ last'.op = "compute")
          => /\ KeysOf(last'.ops) = KeysOf(last.ops)
             /\ {Core(last'.ops[i]) : i \in 1..Len(last'.ops)}
                   = {Core(last.ops[i]) : i \in 1..Len(last.ops)}
             /\ arb_states' = arb_states
      ]_vars

\* C36 witness: a key that entered in one scan is emitted by a later scan
\* of the same quote table (both quotes are older than the entry)
C36_Witness ==
    /\ last.op = "compute"
    /\ \E i \in 1..Len(last.ops) :
          LET o == last.ops[i]
          IN  /\ entered[KeyOf(o)] < last.nms
              /\ Stored(o.buy_mkt, o.pair).ts_ms < entered[KeyOf(o)]
              /\ Stored(o.sell_mkt, o.pair).ts_ms < entered[KeyOf(o)]

\* C37: a key that is in-window and whose profit_pct exceeds MAX_PROFIT_PCT
\* in a scan is left out of the result and stays in-window with its
\* since_ms; an in-window key observed at THRESH_EXIT or above is emitted;
\* and the long flag of every emitted opportunity is computed from the time
\* its key entered the window, whatever scans discarded it since.
C37_CapKeepsLongClock ==
    /\ [][last'.op = "compute" =>
             \A k \in Keys :
                /\ (InWindow(k) /\ k \in last'.capped)
                      => /\ InWindow(k)'
                         /\ arb_states'[k].since_ms = arb_states[k].since_ms
                         /\ k \notin KeysOf(last'.ops)
                /\ (/\ InWindow(k)
                    /\ Observed(k)
                    /\ RGe(ProfitFrac(Stored(k[2], k[1]), Stored(k[3], k[1])), THRESH_EXIT))
                      => k \in KeysOf(last'.ops)
         ]_vars
    /\ [](last.op = "compute" =>
             \A i \in 1..Len(last.ops) :
                LET k == KeyOf(last.ops[i])
                IN  /\ arb_states[k].since_ms = entered[k]
                    /\ last.ops[i].long = (last.nms - entered[k] >= LONG_SECS * 1000))

\* C37 witness: a key that the cap discarded after it entered is emitted
\* again as long, on a sell quote younger than LONG_SECS
C37_Witness ==
    /\ last.op = "compute"
    /\ fcall.fn = "compute_arbitrages"
    /\ \E i \in 1..Len(last.ops) :
          LET o == last.ops[i]
          IN  /\ KeyOf(o) \in fcall.excursions
              /\ o.long
              /\ last.nms - Stored(o.sell_mkt, o.pair).ts_ms < LONG_SECS * 1000

\* C38: whatever the age of the stored quotes, a scan emits every key it
\* evaluates that is in-window with profit_frac >= THRESH_EXIT, or that is
\* not in-window with profit_frac >= THRESH_ENTER; the ages an opportunity
\* carries are the time since its quotes were published; and it is long
\* exactly when LONG_SECS have passed since its key entered.
C38_AgeDoesNotGate ==
    /\ [][last'.op = "compute" =>
             \A k \in Keys :
                (/\ Observed(k)
                 /\ RGe(ProfitFrac(Stored(k[2], k[1]), Stored(k[3], k[1])),
                        IF InWindow(k) THEN THRESH_EXIT ELSE THRESH_ENTER))
                   => k \in KeysOf(last'.ops)
         ]_vars
    /\ [](last.op = "compute" =>
             \A i \in 1..Len(last.ops) :
                LET o == last.ops[i]
                IN  /\ ~o.buy_age.inf /\ ~o.sell_age.inf
                    /\ o.buy_age.ms = last.nms - Stored(o.buy_mkt, o.pair).ts_ms
                    /\ o.sell_age.ms = last.nms - Stored(o.sell_mkt, o.pair).ts_ms
                    /\ o.long = (last.nms - entered[KeyOf(o)] >= LONG_SECS * 1000))

\* C38 witness: an opportunity is emitted, long, from two quotes that are
\* both of age STALE_SECS
C38_Witness ==
    /\ last.op = "compute"
    /\ \E i \in 1..Len(last.ops) :
          /\ last.ops[i].long
          /\ AgeGe(last.ops[i].buy_age, STALE_SECS)
          /\ AgeGe(last.ops[i].sell_age, STALE_SECS)

(***************************************************************************)
(* Properties of the connector sessions: strings and prices                *)
(***************************************************************************)
\* C39: in every Quote published by a connector that reads the top of a
\* full snapshot, bid_str is present only if bid is present, and ask_str is
\* present only if ask is present.
C39_StringImpliesPrice ==
    (Published /\ conn.venue \in TopVenues)
       => /\ last.q.bid_str # None => last.q.bid # NoneF
          /\ last.q.ask_str # None => last.q.ask # NoneF

(***************************************************************************)
(* Properties of the supervisor: the quote table after a reconfiguration   *)
(***************************************************************************)
\* C40: when no discover call is in progress and the program has been
\* configured, the pairs that hold a record in the quote table of a venue
\* are the pairs of its supported set.
C40_TableMatchesSupported ==
    (started /\ rpc \in {"idle", "dead"})
       => \A m \in Venues : DOMAIN Records(prices, m) = DictGet(supported, m, {})
====
